---- MODULE Spec2Model ----
(***************************************************************************)
(* Model of app.py, the Streamlit analyser of innovation initiatives:      *)
(* the encoding fixer, the column resolver and the scorer of               *)
(* clean_and_process_data, and the part of main() that consumes its        *)
(* result.                                                                 *)
(*                                                                         *)
(* Text is a sequence of one-character strings; a character outside ASCII  *)
(* is named by its code point ("U+00E9" is e-acute).  A pandas cell or     *)
(* column label is a tagged value: a str, an integer number, NaN, or a     *)
(* float64.  A float64 is kept exactly, as sign and magnitude in units of  *)
(* 2^-56 held in three limbs of 21 bits, and every float operation rounds  *)
(* to 53 significant bits, to nearest, ties to even, as IEEE 754 does.     *)
(***************************************************************************)
EXTENDS Integers, Sequences, FiniteSets, TLC

--------------------------------------------------------------------------
(* Values *)

NoFloat == [neg |-> FALSE, m |-> <<0, 0, 0>>]
Str(s) == [t |-> "str", s |-> s, n |-> 0, f |-> NoFloat]
Num(n) == [t |-> "num", s |-> <<>>, n |-> n, f |-> NoFloat]
Flt(x) == [t |-> "flt", s |-> <<>>, n |-> 0, f |-> x]
NaN == [t |-> "nan", s |-> <<>>, n |-> 0, f |-> NoFloat]

\* pd.isna / Series.notna on one cell
IsNa(v) == v.t = "nan"

--------------------------------------------------------------------------
(* Python str operations *)

\* the characters str.strip() removes, as far as the inputs use them
Whitespace == {" ", "\t", "\n"}

RECURSIVE LStrip(_)
LStrip(s) ==
  IF s # <<>> /\ Head(s) \in Whitespace THEN LStrip(Tail(s)) ELSE s

RECURSIVE RStrip(_)
RStrip(s) ==
  IF s # <<>> /\ s[Len(s)] \in Whitespace
  THEN RStrip(SubSeq(s, 1, Len(s) - 1))
  ELSE s

\* str.strip()
Strip(s) == RStrip(LStrip(s))

\* a variant: "s.startswith(sub)" where the source has "sub in s"
ContainsAtStart(sub, s) ==
  Len(sub) <= Len(s) /\ \A j \in 1..Len(sub) : s[j] = sub[j]

\* the operator "sub in s" on two str
Contains(sub, s) ==
  \E i \in 0..(Len(s) - Len(sub)) : \A j \in 1..Len(sub) : s[i + j] = sub[j]

StartsWith(s, old) ==
  Len(old) <= Len(s) /\ \A j \in 1..Len(old) : s[j] = old[j]

\* a variant: only the first occurrence is replaced
RECURSIVE ReplaceFirst(_, _, _)
ReplaceFirst(s, old, new) ==
  IF s = <<>> THEN <<>>
  ELSE IF StartsWith(s, old)
       THEN new \o SubSeq(s, Len(old) + 1, Len(s))
       ELSE <<Head(s)>> \o ReplaceFirst(Tail(s), old, new)

\* str.replace(old, new): the occurrences of old, left to right, not
\* overlapping (old is never empty here)
RECURSIVE Replace(_, _, _)
Replace(s, old, new) ==
  IF s = <<>> THEN <<>>
  ELSE IF StartsWith(s, old)
       THEN new \o Replace(SubSeq(s, Len(old) + 1, Len(s)), old, new)
       ELSE <<Head(s)>> \o Replace(Tail(s), old, new)

\* the letters str.lower() changes, as far as the inputs use them
UpperLetters == <<"A","B","C","D","E","F","G","H","I","J","K","L","M","N","O","P","Q","R","S","T","U","V","W","X","Y","Z","U+00C1","U+00C9","U+00CD","U+00D3","U+00DA","U+00D1","U+00DC">>
LowerLetters == <<"a","b","c","d","e","f","g","h","i","j","k","l","m","n","o","p","q","r","s","t","u","v","w","x","y","z","U+00E1","U+00E9","U+00ED","U+00F3","U+00FA","U+00F1","U+00FC">>

\* str.lower()
Lower(s) ==
  [i \in 1..Len(s) |->
     IF \E k \in 1..Len(UpperLetters) : UpperLetters[k] = s[i]
     THEN LowerLetters[CHOOSE k \in 1..Len(UpperLetters) : UpperLetters[k] = s[i]]
     ELSE s[i]]

\* str.split(','): the pieces between the commas, as a sequence of str
RECURSIVE SplitFrom(_, _)
SplitFrom(s, piece) ==
  IF s = <<>> THEN <<piece>>
  ELSE IF Head(s) = "," THEN <<piece>> \o SplitFrom(Tail(s), <<>>)
       ELSE SplitFrom(Tail(s), Append(piece, Head(s)))

Split(s) == SplitFrom(s, <<>>)

Digits == <<"0", "1", "2", "3", "4", "5", "6", "7", "8", "9">>

RECURSIVE NatToStr(_)
NatToStr(n) ==
  IF n < 10 THEN <<Digits[n + 1]>>
  ELSE NatToStr(n \div 10) \o <<Digits[(n % 10) + 1]>>

\* str(x) of an int
IntToStr(n) == IF n < 0 THEN <<"-">> \o NatToStr(-n) ELSE NatToStr(n)

\* str(x) of a cell: the text itself, the decimal form of an int, "nan"
ToStr(v) ==
  CASE v.t = "str" -> v.s
    [] v.t = "num" -> IntToStr(v.n)
    [] OTHER -> <<"n","a","n">>

\* Series.astype(str).str.strip() on one cell
StrStrip(v) == Strip(ToStr(v))

DigitValue(c) == CHOOSE d \in 0..9 : Digits[d + 1] = c

IsDigit(c) == \E d \in 1..10 : Digits[d] = c

RECURSIVE ParseNat(_)
ParseNat(s) ==
  IF s = <<>> THEN 0
  ELSE 10 * ParseNat(SubSeq(s, 1, Len(s) - 1)) + DigitValue(s[Len(s)])

AllDigits(s) == s # <<>> /\ \A i \in 1..Len(s) : IsDigit(s[i])

\* pd.to_numeric(..., errors='coerce') on one cell: a number stays, a str
\* that is an integer literal is parsed, and NaN and every other str of the
\* inputs (none is a digit string with blanks, a decimal point or an
\* exponent) give NaN
ToNumeric(v) ==
  CASE v.t = "num" -> v
    [] v.t = "nan" -> NaN
    [] v.t = "str" ->
         IF AllDigits(v.s) THEN Num(ParseNat(v.s))
         ELSE IF v.s # <<>> /\ Head(v.s) = "-" /\ AllDigits(Tail(v.s))
              THEN Num(-ParseNat(Tail(v.s)))
              ELSE NaN

\* a variant: the missing value is left in place
FillNaKeep(v) == v

\* Series.fillna(0) on one cell
FillNa0(v) == IF IsNa(v) THEN Num(0) ELSE v

--------------------------------------------------------------------------
(* fix_encoding *)

\* the dict literal of fix_encoding, item by item in source order
replacement_items == <<
  <<<<"U+00C3","U+00A1">>, <<"U+00E1">>>>,
  <<<<"U+00C3","U+00A9">>, <<"U+00E9">>>>,
  <<<<"U+00C3","U+00AD">>, <<"U+00ED">>>>,
  <<<<"U+00C3","U+00B3">>, <<"U+00F3">>>>,
  <<<<"U+00C3","U+00BA">>, <<"U+00FA">>>>,
  <<<<"U+00C3","U+00B1">>, <<"U+00F1">>>>,
  <<<<"U+00C3","U+00C1">>, <<"U+00C1">>>>,
  <<<<"U+00C3","U+00C9">>, <<"U+00C9">>>>,
  <<<<"U+00C3","U+00CD">>, <<"U+00CD">>>>,
  <<<<"U+00C3","U+00D3">>, <<"U+00D3">>>>,
  <<<<"U+00C3","U+00DA">>, <<"U+00DA">>>>,
  <<<<"U+00C3","U+00D1">>, <<"U+00D1">>>>,
  <<<<"U+00C2","U+00BF">>, <<"U+00BF">>>>,
  <<<<"U+00C2","U+00A1">>, <<"U+00A1">>>>,
  <<<<"U+00C2","U+00B0">>, <<"U+00B0">>>>,
  <<<<"U+00E2","U+0153","U+2026">>, <<"U+2705">>>>,
  <<<<"U+00E2","U+20AC","U+0153">>, <<"\"">>>>,
  <<<<"U+00E2","U+20AC">>, <<"\"">>>>,
  <<<<"U+00E2","U+20AC","\"">>, <<"U+2013">>>>,
  <<<<"U+00E2","U+20AC","\"">>, <<"U+2014">>>> >>

\* a Python dict built from items: a key seen again keeps its place and
\* takes the later value
RECURSIVE DictOf(_)
DictOf(items) ==
  IF items = <<>> THEN <<>>
  ELSE LET before == DictOf(SubSeq(items, 1, Len(items) - 1))
           item == items[Len(items)]
       IN IF \E i \in 1..Len(before) : before[i][1] = item[1]
          THEN [i \in 1..Len(before) |->
                  IF before[i][1] = item[1] THEN item ELSE before[i]]
          ELSE Append(before, item)

replacements == DictOf(replacement_items)

\* the loop over replacements.items(), from item i on
RECURSIVE ApplyReplacements(_, _)
ApplyReplacements(text, i) ==
  IF i > Len(replacements) THEN text
  ELSE ApplyReplacements(
         Replace(text, replacements[i][1], replacements[i][2]), i + 1)

fix_encoding(text) ==
  IF IsNa(text) \/ (text.t = "str" /\ text.s = <<>>)
  THEN text
  ELSE Str(ApplyReplacements(ToStr(text), 1))

--------------------------------------------------------------------------
(* float64 arithmetic *)

Limb == 2^21

\* the number of bits of v, 0 <= v < Limb
BitLen(v) == CHOOSE n \in 0..21 : v < 2^n /\ (n = 0 \/ v >= 2^(n - 1))

MagBitLen(m) ==
  IF m[3] > 0 THEN 42 + BitLen(m[3])
  ELSE IF m[2] > 0 THEN 21 + BitLen(m[2])
       ELSE BitLen(m[1])

\* carries propagated
MagNorm(a, b, c) ==
  LET b1 == b + (a \div Limb)
  IN <<a % Limb, b1 % Limb, c + (b1 \div Limb)>>

\* round to 53 significant bits, to nearest, ties to even; sticky says that
\* the exact value lies strictly above the magnitude given
MagRoundSticky(m, sticky) ==
  LET s == MagBitLen(m) - 53 IN
  IF s <= 0 THEN m
  ELSE LET p == 2^s
           r == m[1] % p
           half == p \div 2
           up == \/ r > half
                 \/ r = half /\ sticky
                 \/ r = half /\ (m[1] \div p) % 2 = 1
       IN MagNorm(m[1] - r + (IF up THEN p ELSE 0), m[2], m[3])

MagRound(m) == MagRoundSticky(m, FALSE)

MagLess(x, y) ==
  \/ x[3] < y[3]
  \/ x[3] = y[3] /\ x[2] < y[2]
  \/ x[3] = y[3] /\ x[2] = y[2] /\ x[1] < y[1]

\* x - y for y <= x
MagSub(x, y) ==
  LET a == x[1] - y[1]
      b == x[2] - y[2] - (IF a < 0 THEN 1 ELSE 0)
      c == x[3] - y[3] - (IF b < 0 THEN 1 ELSE 0)
  IN <<(a + Limb) % Limb, (b + Limb) % Limb, c>>

FZero == [neg |-> FALSE, m |-> <<0, 0, 0>>]

MkFloat(neg, m) == IF m = <<0, 0, 0>> THEN FZero ELSE [neg |-> neg, m |-> m]

\* float64 x + y
FAdd(x, y) ==
  IF x.neg = y.neg
  THEN MkFloat(x.neg,
               MagRound(MagNorm(x.m[1] + y.m[1], x.m[2] + y.m[2], x.m[3] + y.m[3])))
  ELSE IF MagLess(x.m, y.m)
       THEN MkFloat(y.neg, MagRound(MagSub(y.m, x.m)))
       ELSE MkFloat(x.neg, MagRound(MagSub(x.m, y.m)))

Abs(k) == IF k < 0 THEN -k ELSE k

\* float64 k * w for an integer k and a positive float64 w
FMulInt(k, w) ==
  MkFloat(k < 0,
          MagRound(MagNorm(Abs(k) * w.m[1], Abs(k) * w.m[2], Abs(k) * w.m[3])))

\* float64 k / 3 for an integer k: the quotient of k * 2^56 by 3, limb by
\* limb from the top, rounded with the remainder as sticky bit
FDiv3(k) ==
  LET top == Abs(k) * 2^14
      q3 == top \div 3
      r3 == top % 3
      q2 == (r3 * Limb) \div 3
      r2 == (r3 * Limb) % 3
      q1 == (r2 * Limb) \div 3
      r1 == (r2 * Limb) % 3
  IN MkFloat(k < 0, MagRoundSticky(<<q1, q2, q3>>, r1 # 0))

\* float64 x >= y
FGe(x, y) ==
  IF x.neg # y.neg THEN y.neg
  ELSE IF x.neg THEN ~MagLess(y.m, x.m) ELSE ~MagLess(x.m, y.m)

\* the float64 nearest to a decimal literal of the source
F_0_20 == [neg |-> FALSE, m |-> <<1258292, 1677721, 3276>>]
F_0_15 == [neg |-> FALSE, m |-> <<419430, 1258291, 2457>>]
F_0_10 == [neg |-> FALSE, m |-> <<1677722, 838860, 1638>>]
F_3_5 == [neg |-> FALSE, m |-> <<0, 0, 57344>>]
F_2_5 == [neg |-> FALSE, m |-> <<0, 0, 40960>>]

\* the float64 of an integer
FOfInt(k) == MkFloat(k < 0, <<0, 0, Abs(k) * 2^14>>)

--------------------------------------------------------------------------
(* Tables *)

\* a DataFrame: the column labels in order, the rows, each a sequence of
\* cells in column order, and the index, the label of each row
Table(columns, rows, index) == [columns |-> columns, rows |-> rows, index |-> index]

\* the RangeIndex of a table that was just read, counted from 1 here
RangeIndex(n) == [r \in 1..n |-> r]

EmptyTable == Table(<<>>, <<>>, <<>>)

\* the positions of the columns labelled name
ColumnsNamed(t, name) == {i \in 1..Len(t.columns) : t.columns[i] = Str(name)}

\* "name in df.columns"
HasColumn(t, name) == ColumnsNamed(t, name) # {}

\* df[name] selects one column (a Series) only when the label is unique;
\* with a repeated label it is a DataFrame
IsSeries(t, name) == Cardinality(ColumnsNamed(t, name)) = 1

ColumnOf(t, name) == CHOOSE i \in 1..Len(t.columns) : t.columns[i] = Str(name)

\* the cell of row r in the column labelled name
Cell(t, r, name) == t.rows[r][ColumnOf(t, name)]

\* df[name] = values, one value per row: the column is replaced where the
\* label exists and appended where it does not
AssignColumn(t, name, values) ==
  IF HasColumn(t, name)
  THEN Table(t.columns,
             [r \in 1..Len(t.rows) |->
                [i \in 1..Len(t.columns) |->
                   IF t.columns[i] = Str(name) THEN values[r] ELSE t.rows[r][i]]],
             t.index)
  ELSE Table(Append(t.columns, Str(name)),
             [r \in 1..Len(t.rows) |-> Append(t.rows[r], values[r])],
             t.index)

\* df[mask]: the rows whose mask is true, in order
RECURSIVE SelectRows(_, _)
SelectRows(rows, mask) ==
  IF rows = <<>> THEN <<>>
  ELSE LET rest == SelectRows(Tail(rows), Tail(mask))
       IN IF Head(mask) THEN <<Head(rows)>> \o rest ELSE rest

--------------------------------------------------------------------------
(* clean_and_process_data: the column resolver *)

\* a variant: the proposer's branch tests 'Nombre' alone
text_rules_loose == <<
  [all |-> <<<<"M","a","r","c","a"," ","t","e","m","p","o","r","a","l">>>>, name |-> <<"F","e","c","h","a">>],
  [all |-> <<<<"N","o","m","b","r","e">>>>, name |-> <<"N","o","m","b","r","e","_","C","o","l","a","b","o","r","a","d","o","r">>],
  [all |-> <<<<"C","o","r","r","e","o"," ","e","l","e","c","t","r">>>>, name |-> <<"C","o","r","r","e","o">>],
  [all |-> <<<<"R","o","l"," ","o"," ","r","e","l","a","c","i">>>>, name |-> <<"R","o","l">>],
  [all |-> <<<<"r","e","a"," ","o"," ","p","r","o","c","e","s","o">>>>, name |-> <<"A","r","e","a">>],
  [all |-> <<<<"N","o","m","b","r","e"," ","d","e"," ","l","a"," ","i","d","e","a">>>>, name |-> <<"N","o","m","b","r","e","_","I","n","i","c","i","a","t","i","v","a">>],
  [all |-> <<<<"p","r","o","b","l","e","m","a",","," ","n","e","c","e","s","i","d","a","d">>>>, name |-> <<"P","r","o","b","l","e","m","a">>],
  [all |-> <<<<"C","u">>, <<"l"," ","e","s"," ","t","u"," ","p","r","o","p","u","e","s","t","a">>>>, name |-> <<"P","r","o","p","u","e","s","t","a">>],
  [all |-> <<<<"p","r","o","c","e","s","o","/","s"," ","c","r","e","e","s">>>>, name |-> <<"P","r","o","c","e","s","o","_","R","e","l","a","c","i","o","n","a","d","o">>],
  [all |-> <<<<"b","e","n","e","f","i","c","i","o","s"," ","e","s","p","e","r","a","s">>>>, name |-> <<"B","e","n","e","f","i","c","i","o","s">>],
  [all |-> <<<<"i","d","e","a"," ","l","a"," ","h","a","s"," ","v","i","s","t","o">>>>, name |-> <<"V","i","s","t","a","_","O","t","r","o","_","L","u","g","a","r">>],
  [all |-> <<<<"r","e","s","p","u","e","s","t","a"," ","a","n","t","e","r","i","o","r">>>>, name |-> <<"D","o","n","d","e","_","C","o","m","o">>],
  [all |-> <<<<"p","u","e","d","e"," ","i","m","p","l","e","m","e","n","t","a","r","s","e">>>>, name |-> <<"R","e","c","u","r","s","o","s","_","A","c","t","u","a","l","e","s">>] >>

\* the if/elif chain over col_clean, in order: a column takes the name of
\* the first branch all of whose substrings it contains.  The branches of
\* the identity and text fields, lines 279 to 304:
text_rules == <<
  [all |-> <<<<"M","a","r","c","a"," ","t","e","m","p","o","r","a","l">>>>, name |-> <<"F","e","c","h","a">>],
  [all |-> <<<<"N","o","m","b","r","e"," ","c","o","m","p","l","e","t","o">>>>, name |-> <<"N","o","m","b","r","e","_","C","o","l","a","b","o","r","a","d","o","r">>],
  [all |-> <<<<"C","o","r","r","e","o"," ","e","l","e","c","t","r">>>>, name |-> <<"C","o","r","r","e","o">>],
  [all |-> <<<<"R","o","l"," ","o"," ","r","e","l","a","c","i">>>>, name |-> <<"R","o","l">>],
  [all |-> <<<<"r","e","a"," ","o"," ","p","r","o","c","e","s","o">>>>, name |-> <<"A","r","e","a">>],
  [all |-> <<<<"N","o","m","b","r","e"," ","d","e"," ","l","a"," ","i","d","e","a">>>>, name |-> <<"N","o","m","b","r","e","_","I","n","i","c","i","a","t","i","v","a">>],
  [all |-> <<<<"p","r","o","b","l","e","m","a",","," ","n","e","c","e","s","i","d","a","d">>>>, name |-> <<"P","r","o","b","l","e","m","a">>],
  [all |-> <<<<"C","u">>, <<"l"," ","e","s"," ","t","u"," ","p","r","o","p","u","e","s","t","a">>>>, name |-> <<"P","r","o","p","u","e","s","t","a">>],
  [all |-> <<<<"p","r","o","c","e","s","o","/","s"," ","c","r","e","e","s">>>>, name |-> <<"P","r","o","c","e","s","o","_","R","e","l","a","c","i","o","n","a","d","o">>],
  [all |-> <<<<"b","e","n","e","f","i","c","i","o","s"," ","e","s","p","e","r","a","s">>>>, name |-> <<"B","e","n","e","f","i","c","i","o","s">>],
  [all |-> <<<<"i","d","e","a"," ","l","a"," ","h","a","s"," ","v","i","s","t","o">>>>, name |-> <<"V","i","s","t","a","_","O","t","r","o","_","L","u","g","a","r">>],
  [all |-> <<<<"r","e","s","p","u","e","s","t","a"," ","a","n","t","e","r","i","o","r">>>>, name |-> <<"D","o","n","d","e","_","C","o","m","o">>],
  [all |-> <<<<"p","u","e","d","e"," ","i","m","p","l","e","m","e","n","t","a","r","s","e">>>>, name |-> <<"R","e","c","u","r","s","o","s","_","A","c","t","u","a","l","e","s">>] >>

\* the branches of the numeric fields, lines 306 to 319
numeric_rules == <<
  [all |-> <<<<"V","a","l","o","r"," ","e","s","t","r","a","t">>>>, name |-> <<"V","a","l","o","r","_","E","s","t","r","a","t","e","g","i","c","o">>],
  [all |-> <<<<"N","i","v","e","l"," ","d","e"," ","i","m","p","a","c","t","o">>>>, name |-> <<"N","i","v","e","l","_","I","m","p","a","c","t","o">>],
  [all |-> <<<<"V","i","a","b","i","l","i","d","a","d"," ","t">>>>, name |-> <<"V","i","a","b","i","l","i","d","a","d","_","T","e","c","n","i","c","a">>],
  [all |-> <<<<"C","o","s","t","o","-","b","e","n","e","f","i","c","i","o">>>>, name |-> <<"C","o","s","t","o","_","B","e","n","e","f","i","c","i","o">>],
  [all |-> <<<<"I","n","n","o","v","a","c","i">>, <<"d","i","s","r","u","p","c","i">>>>, name |-> <<"I","n","n","o","v","a","c","i","o","n","_","D","i","s","r","u","p","c","i","o","n">>],
  [all |-> <<<<"E","s","c","a","l","a","b","i","l","i","d","a","d">>, <<"t","r","a","n","s","v","e","r","s","a","l","i","d","a","d">>>>,
   name |-> <<"E","s","c","a","l","a","b","i","l","i","d","a","d","_","T","r","a","n","s","v","e","r","s","a","l","i","d","a","d">>],
  [all |-> <<<<"T","i","e","m","p","o"," ","d","e"," ","i","m","p","l","e","m","e","n","t","a","c","i">>>>, name |-> <<"T","i","e","m","p","o","_","I","m","p","l","e","m","e","n","t","a","c","i","o","n">>] >>

column_rules == text_rules \o numeric_rules

\* the condition of branch i on col_clean
RuleMatches(i, col_clean) ==
  \A k \in 1..Len(column_rules[i].all) :
    Contains(column_rules[i].all[k], col_clean)

MatchingRules(col_clean) ==
  {i \in 1..Len(column_rules) : RuleMatches(i, col_clean)}

\* a variant: the last branch whose condition holds (a chain of plain ifs)
LastMatch(col_clean) ==
  CHOOSE i \in MatchingRules(col_clean) :
    \A j \in MatchingRules(col_clean) : i >= j

\* the branch the chain takes: the first whose condition holds
FirstMatch(col_clean) ==
  CHOOSE i \in MatchingRules(col_clean) :
    \A j \in MatchingRules(col_clean) : i <= j

\* "col.strip().rstrip()" of line 270
CleanLabel(col) == RStrip(Strip(col))

\* column_mapping.get(col, col) for a cleaned label col: rename leaves a
\* label that is no key of the mapping as it is
MapColumn(col) ==
  LET col_clean == Strip(col) IN
  IF MatchingRules(col_clean) = {} THEN col
  ELSE column_rules[FirstMatch(col_clean)].name

\* the labels of df_clean after lines 270 to 322, for str labels
ResolvedColumns(columns) ==
  [i \in 1..Len(columns) |-> Str(MapColumn(CleanLabel(columns[i].s)))]

numeric_columns == <<
  <<"V","a","l","o","r","_","E","s","t","r","a","t","e","g","i","c","o">>, <<"N","i","v","e","l","_","I","m","p","a","c","t","o">>, <<"V","i","a","b","i","l","i","d","a","d","_","T","e","c","n","i","c","a">>,
  <<"C","o","s","t","o","_","B","e","n","e","f","i","c","i","o">>, <<"I","n","n","o","v","a","c","i","o","n","_","D","i","s","r","u","p","c","i","o","n">>,
  <<"E","s","c","a","l","a","b","i","l","i","d","a","d","_","T","r","a","n","s","v","e","r","s","a","l","i","d","a","d">>, <<"T","i","e","m","p","o","_","I","m","p","l","e","m","e","n","t","a","c","i","o","n">> >>

required_columns ==
  <<<<"N","o","m","b","r","e","_","C","o","l","a","b","o","r","a","d","o","r">>, <<"N","o","m","b","r","e","_","I","n","i","c","i","a","t","i","v","a">>, <<"A","r","e","a">>>> \o numeric_columns

text_columns == <<
  <<"N","o","m","b","r","e","_","C","o","l","a","b","o","r","a","d","o","r">>, <<"A","r","e","a">>, <<"N","o","m","b","r","e","_","I","n","i","c","i","a","t","i","v","a">>, <<"P","r","o","b","l","e","m","a">>,
  <<"P","r","o","p","u","e","s","t","a">>, <<"B","e","n","e","f","i","c","i","o","s">>, <<"P","r","o","c","e","s","o","_","R","e","l","a","c","i","o","n","a","d","o">> >>

\* a variant: only the identity columns are required
MissingIdentityColumns(t) ==
  LET Absent(col) == ~HasColumn(t, col)
  IN SelectSeq(SubSeq(required_columns, 1, 3), Absent)

\* a variant: the first missing column alone is found
FirstMissingColumn(t) ==
  LET Absent(col) == ~HasColumn(t, col)
      all == SelectSeq(required_columns, Absent)
  IN SubSeq(all, 1, 1)

\* [col for col in required_columns if col not in df_clean.columns]
MissingColumns(t) ==
  LET Absent(col) == ~HasColumn(t, col) IN SelectSeq(required_columns, Absent)

--------------------------------------------------------------------------
(* clean_and_process_data: cleaning and scoring *)

\* lines 338 to 341: fix_encoding over each text column that is present
RECURSIVE FixTextFrom(_, _)
FixTextFrom(t, k) ==
  IF k > Len(text_columns) THEN t
  ELSE LET col == text_columns[k] IN
       IF HasColumn(t, col)
       THEN FixTextFrom(
              AssignColumn(t, col,
                [r \in 1..Len(t.rows) |-> fix_encoding(Cell(t, r, col))]),
              k + 1)
       ELSE FixTextFrom(t, k + 1)

\* DataFrame.apply(fix_encoding) hands fix_encoding a whole column, whose
\* truth value is ambiguous: a text column whose label is repeated raises
FixTextRaises(t) ==
  \E k \in 1..Len(text_columns) :
    HasColumn(t, text_columns[k]) /\ ~IsSeries(t, text_columns[k])

\* a variant: the names are compared with '' without strip()
valid_mask_nostrip(t, r) ==
  /\ ~IsNa(Cell(t, r, <<"N","o","m","b","r","e","_","C","o","l","a","b","o","r","a","d","o","r">>))
  /\ ~IsNa(Cell(t, r, <<"N","o","m","b","r","e","_","I","n","i","c","i","a","t","i","v","a">>))
  /\ ToStr(Cell(t, r, <<"N","o","m","b","r","e","_","C","o","l","a","b","o","r","a","d","o","r">>)) # <<>>
  /\ ToStr(Cell(t, r, <<"N","o","m","b","r","e","_","I","n","i","c","i","a","t","i","v","a">>)) # <<>>

\* a variant: a row must also hold a number in every criterion
valid_mask_parseable(t, r) ==
  /\ ~IsNa(Cell(t, r, <<"N","o","m","b","r","e","_","C","o","l","a","b","o","r","a","d","o","r">>))
  /\ ~IsNa(Cell(t, r, <<"N","o","m","b","r","e","_","I","n","i","c","i","a","t","i","v","a">>))
  /\ StrStrip(Cell(t, r, <<"N","o","m","b","r","e","_","C","o","l","a","b","o","r","a","d","o","r">>)) # <<>>
  /\ StrStrip(Cell(t, r, <<"N","o","m","b","r","e","_","I","n","i","c","i","a","t","i","v","a">>)) # <<>>
  /\ \A k \in 1..7 : ~IsNa(ToNumeric(Cell(t, r, numeric_columns[k])))

\* valid_mask of lines 344 to 349 for row r
valid_mask(t, r) ==
  /\ ~IsNa(Cell(t, r, <<"N","o","m","b","r","e","_","C","o","l","a","b","o","r","a","d","o","r">>))
  /\ ~IsNa(Cell(t, r, <<"N","o","m","b","r","e","_","I","n","i","c","i","a","t","i","v","a">>))
  /\ StrStrip(Cell(t, r, <<"N","o","m","b","r","e","_","C","o","l","a","b","o","r","a","d","o","r">>)) # <<>>
  /\ StrStrip(Cell(t, r, <<"N","o","m","b","r","e","_","I","n","i","c","i","a","t","i","v","a">>)) # <<>>

\* a variant: the rows that are kept are labelled anew, from the first
FilterValidRowsRelabelled(t) ==
  LET mask == [r \in 1..Len(t.rows) |-> valid_mask(t, r)]
  IN Table(t.columns, SelectRows(t.rows, mask),
           RangeIndex(Len(SelectRows(t.rows, mask))))

\* df_clean[valid_mask]: the rows, and their index labels, where the mask
\* is true
FilterValidRows(t) ==
  LET mask == [r \in 1..Len(t.rows) |-> valid_mask(t, r)]
  IN Table(t.columns, SelectRows(t.rows, mask), SelectRows(t.index, mask))

\* valid_mask needs both name columns, each as one Series
FilterValidRaises(t) ==
  ~IsSeries(t, <<"N","o","m","b","r","e","_","C","o","l","a","b","o","r","a","d","o","r">>) \/ ~IsSeries(t, <<"N","o","m","b","r","e","_","I","n","i","c","i","a","t","i","v","a">>)

\* lines 353 to 355
RECURSIVE ToNumericFrom(_, _)
ToNumericFrom(t, k) ==
  IF k > Len(numeric_columns) THEN t
  ELSE LET field == numeric_columns[k] IN
       IF HasColumn(t, field)
       THEN ToNumericFrom(
              AssignColumn(t, field,
                [r \in 1..Len(t.rows) |-> FillNa0(ToNumeric(Cell(t, r, field)))]),
              k + 1)
       ELSE ToNumericFrom(t, k + 1)

\* pd.to_numeric takes a Series, not the DataFrame a repeated label selects
ToNumericRaises(t) ==
  \E k \in 1..Len(numeric_columns) :
    HasColumn(t, numeric_columns[k]) /\ ~IsSeries(t, numeric_columns[k])

\* the sums of lines 358 to 391 need every criterion column, each as one
\* Series
ScoreRaises(t) ==
  \E k \in 1..Len(numeric_columns) : ~IsSeries(t, numeric_columns[k])

\* a variant: every row is scored with the criteria of the first row
CriteriaOfFirst(t, r) == [k \in 1..7 |-> Cell(t, 1, numeric_columns[k]).n]

\* the seven criteria of row r, as integers, in the order of numeric_columns
Criteria(t, r) == [k \in 1..7 |-> Cell(t, r, numeric_columns[k]).n]

\* lines 358 to 363
Puntuacion_Total(c) == c[1] + c[2] + c[3] + c[4] + c[5] + c[6] + c[7]

\* the weights of lines 367 to 373, in the order of the terms
Weights == <<F_0_20, F_0_20, F_0_15, F_0_15, F_0_10, F_0_10, F_0_10>>

\* lines 366 to 374: the float64 products added from left to right
Puntuacion_Ponderada(c) ==
  FAdd(FAdd(FAdd(FAdd(FAdd(FAdd(
    FMulInt(c[1], Weights[1]),
    FMulInt(c[2], Weights[2])),
    FMulInt(c[3], Weights[3])),
    FMulInt(c[4], Weights[4])),
    FMulInt(c[5], Weights[5])),
    FMulInt(c[6], Weights[6])),
    FMulInt(c[7], Weights[7]))

\* a variant: > where the source has >=
categorizar_prioridad_strict(score) ==
  IF FGe(score, F_3_5) /\ score # F_3_5 THEN <<"A","l","t","a">>
  ELSE IF FGe(score, F_2_5) /\ score # F_2_5 THEN <<"M","e","d","i","a">>
       ELSE <<"B","a","j","a">>

\* lines 377 to 383
categorizar_prioridad(score) ==
  IF FGe(score, F_3_5) THEN <<"A","l","t","a">>
  ELSE IF FGe(score, F_2_5) THEN <<"M","e","d","i","a">>
       ELSE <<"B","a","j","a">>

\* a variant: the ease is 6 minus the time criterion
Facilidad_SixMinusTime(c) == FOfInt(6 - c[7])

\* lines 388 to 391
Facilidad_Implementacion(c) == FDiv3(c[3] + c[4] + c[7])

\* lines 357 to 391: the four derived columns
Scored(t) ==
  LET n == Len(t.rows)
      t1 == AssignColumn(t, <<"P","u","n","t","u","a","c","i","o","n","_","T","o","t","a","l">>,
              [r \in 1..n |-> Num(Puntuacion_Total(Criteria(t, r)))])
      t2 == AssignColumn(t1, <<"P","u","n","t","u","a","c","i","o","n","_","P","o","n","d","e","r","a","d","a">>,
              [r \in 1..n |-> Flt(Puntuacion_Ponderada(Criteria(t, r)))])
      t3 == AssignColumn(t2, <<"P","r","i","o","r","i","d","a","d">>,
              [r \in 1..n |->
                 Str(categorizar_prioridad(Cell(t2, r, <<"P","u","n","t","u","a","c","i","o","n","_","P","o","n","d","e","r","a","d","a">>).f))])
  IN AssignColumn(t3, <<"F","a","c","i","l","i","d","a","d","_","I","m","p","l","e","m","e","n","t","a","c","i","o","n">>,
       [r \in 1..n |-> Flt(Facilidad_Implementacion(Criteria(t, r)))])


\* how a call of clean_and_process_data ends: with a table, with None after
\* st.error has listed the missing columns, or with an exception
Outcome(kind, table, missing, type, line) ==
  [kind |-> kind, table |-> table, missing |-> missing,
   exception |-> [type |-> type, line |-> line]]

\* clean_and_process_data as one call, lines 261 to 393
clean_and_process_data(frame) ==
  IF \E i \in 1..Len(frame.columns) : frame.columns[i].t # "str"
  THEN Outcome("raised", EmptyTable, <<>>, "AttributeError", 270)
  ELSE
    LET resolved == Table(ResolvedColumns(frame.columns), frame.rows, frame.index)
        missing_columns == MissingColumns(resolved)
    IN
    IF missing_columns # <<>>
    THEN Outcome("none", EmptyTable, missing_columns, "none", 0)
    ELSE IF FixTextRaises(resolved)
    THEN Outcome("raised", EmptyTable, <<>>, "ValueError", 341)
    ELSE
      LET fixed == FixTextFrom(resolved, 1) IN
      IF FilterValidRaises(fixed)
      THEN Outcome("raised", EmptyTable, <<>>, "KeyError", 345)
      ELSE
        LET filtered == FilterValidRows(fixed) IN
        IF ToNumericRaises(filtered)
        THEN Outcome("raised", EmptyTable, <<>>, "TypeError", 355)
        ELSE
          LET numeric == ToNumericFrom(filtered, 1) IN
          IF ScoreRaises(numeric)
          THEN Outcome("raised", EmptyTable, <<>>, "KeyError", 359)
          ELSE Outcome("table", Scored(numeric), <<>>, "none", 0)
--------------------------------------------------------------------------
(* The tables handed to clean_and_process_data *)

\* how many blanks are put around a header, at most
MaxPad == 1
\* how many of the survey's columns are left out of a table, at most
MaxDropped == 2
\* how many criterion cells of a row are replaced by a raw cell, at most
MaxOverrides == 1
\* how many rows a table of several rows has, at most
MaxRows == 2

\* the headers of the survey export
SurveyHeaders == <<
  <<"M","a","r","c","a"," ","t","e","m","p","o","r","a","l">>,
  <<"N","o","m","b","r","e"," ","c","o","m","p","l","e","t","o">>,
  <<"S","e","l","e","c","c","i","o","n","a"," ","e","l"," ","U+00E1","r","e","a"," ","o"," ","p","r","o","c","e","s","o"," ","a","l"," ","c","u","a","l"," ","p","e","r","t","e","n","e","c","e","s"," ">>,
  <<"N","o","m","b","r","e"," ","d","e"," ","l","a"," ","i","d","e","a"," ","o"," ","i","n","i","c","i","a","t","i","v","a"," "," ">>,
  <<"V","a","l","o","r"," ","e","s","t","r","a","t","U+00E9","g","i","c","o">>,
  <<"N","i","v","e","l"," ","d","e"," ","i","m","p","a","c","t","o">>,
  <<"V","i","a","b","i","l","i","d","a","d"," ","t","U+00E9","c","n","i","c","a">>,
  <<"C","o","s","t","o","-","b","e","n","e","f","i","c","i","o">>,
  <<"I","n","n","o","v","a","c","i","U+00F3","n"," ","/"," ","d","i","s","r","u","p","c","i","U+00F3","n"," ">>,
  <<"E","s","c","a","l","a","b","i","l","i","d","a","d"," ","/"," ","t","r","a","n","s","v","e","r","s","a","l","i","d","a","d"," ">>,
  <<"T","i","e","m","p","o"," ","d","e"," ","i","m","p","l","e","m","e","n","t","a","c","i","U+00F3","n"," ">> >>

\* the same headers when the UTF-8 bytes were read as Windows-1252
MojibakeHeaders == <<
  <<"M","a","r","c","a"," ","t","e","m","p","o","r","a","l">>,
  <<"N","o","m","b","r","e"," ","c","o","m","p","l","e","t","o">>,
  <<"S","e","l","e","c","c","i","o","n","a"," ","e","l"," ","U+00C3","U+00A1","r","e","a"," ","o"," ","p","r","o","c","e","s","o"," ","a","l"," ","c","u","a","l"," ","p","e","r","t","e","n","e","c","e","s"," ">>,
  <<"N","o","m","b","r","e"," ","d","e"," ","l","a"," ","i","d","e","a"," ","o"," ","i","n","i","c","i","a","t","i","v","a"," "," ">>,
  <<"V","a","l","o","r"," ","e","s","t","r","a","t","U+00C3","U+00A9","g","i","c","o">>,
  <<"N","i","v","e","l"," ","d","e"," ","i","m","p","a","c","t","o">>,
  <<"V","i","a","b","i","l","i","d","a","d"," ","t","U+00C3","U+00A9","c","n","i","c","a">>,
  <<"C","o","s","t","o","-","b","e","n","e","f","i","c","i","o">>,
  <<"I","n","n","o","v","a","c","i","U+00C3","U+00B3","n"," ","/"," ","d","i","s","r","u","p","c","i","U+00C3","U+00B3","n"," ">>,
  <<"E","s","c","a","l","a","b","i","l","i","d","a","d"," ","/"," ","t","r","a","n","s","v","e","r","s","a","l","i","d","a","d"," ">>,
  <<"T","i","e","m","p","o"," ","d","e"," ","i","m","p","l","e","m","e","n","t","a","c","i","U+00C3","U+00B3","n"," ">> >>

\* the canonical names of those eleven columns
CanonicalHeaders == <<
  <<"F","e","c","h","a">>, <<"N","o","m","b","r","e","_","C","o","l","a","b","o","r","a","d","o","r">>, <<"A","r","e","a">>, <<"N","o","m","b","r","e","_","I","n","i","c","i","a","t","i","v","a">>>>
  \o numeric_columns

\* every canonical name, in the order of the rules
CanonicalNames == [i \in 1..Len(column_rules) |-> column_rules[i].name]

Spellings == {"utf8", "mojibake", "canonical"}

HeaderOf(k, spelling) ==
  CASE spelling = "utf8" -> SurveyHeaders[k]
    [] spelling = "mojibake" -> MojibakeHeaders[k]
    [] spelling = "canonical" -> CanonicalHeaders[k]

RECURSIVE Blanks(_)
Blanks(n) == IF n = 0 THEN <<>> ELSE <<" ">> \o Blanks(n - 1)

Padded(s, n) == Blanks(n) \o s \o Blanks(n)

Ints(s) == [i \in 1..Len(s) |-> Num(s[i])]

\* two rows of answers: the first is the row of the end-to-end scenario,
\* the second has a weighted score of exactly 2.5 in the reals
ScenarioCriteria == <<5, 5, 4, 4, 3, 3, 2>>
BoundaryCriteria == <<0, 1, 3, 3, 5, 5, 4>>
UpperCriteria == <<4, 4, 3, 3, 4, 4, 3>>

SurveyRows == <<
  <<Str(<<"2","0","2","4","-","0","1","-","0","1">>), Str(<<"A","n","a"," ","G","a","r","c","U+00ED","a">>), Str(<<"I","T">>), Str(<<"C","R","M"," ","c","o","n"," ","I","A">>)>>
    \o Ints(ScenarioCriteria),
  <<Str(<<"2","0","2","4","-","0","1","-","0","2">>), Str(<<"L","u","i","s"," ","P","e","U+00C3","U+00B1","a">>), Str(<<"P","r","o","d","u","c","c","i","U+00C3","U+00B3","n">>), Str(<<"T","a","b","l","e","r","o">>)>>
    \o Ints(BoundaryCriteria) >>

\* a further column: its header and its cell in each of the two rows
ExtraColumns == {
  [h |-> Str(<<" ","C","o","m","e","n","t","a","r","i","o"," ">>), cells |-> <<Str(<<"o","k">>), NaN>>],
  [h |-> Num(2024), cells |-> <<Num(1), Num(2)>>],
  [h |-> Str(<<" ","N","i","v","e","l"," ","d","e"," ","i","m","p","a","c","t","o">>), cells |-> <<Num(1), Num(2)>>],
  [h |-> Str(<<"P","r","i","o","r","i","d","a","d">>), cells |-> <<Str(<<"U","r","g","e","n","t","e">>), Str(<<"A","l","t","a">>)>>],
  [h |-> Str(<<"N","o","m","b","r","e"," ","d","e"," ","l","a"," ","i","d","e","a",":"," ","p","r","o","b","l","e","m","a",","," ","n","e","c","e","s","i","d","a","d">>),
   cells |-> <<Str(<<"C","h","a","t","b","o","t">>), Str(<<"P","o","r","t","a","l">>)>>],
  [h |-> Str(<<"U+00BF","C","u","U+00E1","l"," ","e","s"," ","t","u"," ","p","r","o","p","u","e","s","t","a","?">>),
   cells |-> <<Str(<<"A","u","t","o","m","a","t","i","z","a","c","i","U+00C3","U+00B3","n">>), NaN>>],
  [h |-> Str(<<"U+00C2","U+00BF","C","u","U+00C3","U+00A1","l"," ","e","s"," ","t","u"," ","p","r","o","p","u","e","s","t","a","?">>),
   cells |-> <<Str(<<"U","n"," ","C","R","M">>), Str(<<>>)>>] }

\* the positions 1..n that are not in dropped, in order
RECURSIVE Kept(_, _)
Kept(n, dropped) ==
  IF n = 0 THEN <<>>
  ELSE IF n \in dropped THEN Kept(n - 1, dropped)
       ELSE Append(Kept(n - 1, dropped), n)

\* the survey table with the given spelling and padding of its headers,
\* without the columns dropped, followed by the extra columns
HeaderCase(spelling, pad, dropped, extras) ==
  LET keep == Kept(Len(SurveyHeaders), dropped) IN
  Table(
    [i \in 1..Len(keep) |-> Str(Padded(HeaderOf(keep[i], spelling), pad))]
      \o [j \in 1..Len(extras) |-> extras[j].h],
    [r \in 1..Len(SurveyRows) |->
       [i \in 1..Len(keep) |-> SurveyRows[r][keep[i]]]
         \o [j \in 1..Len(extras) |-> extras[j].cells[r]]],
    RangeIndex(Len(SurveyRows)))

\* the survey table in every spelling and padding: without up to MaxDropped
\* of its columns, or with one more column, beside all the survey's columns
\* or in the place of the initiative's name
HeaderCases ==
  {HeaderCase(sp, pad, dropped, <<>>) :
     sp \in Spellings, pad \in 0..MaxPad,
     dropped \in {d \in SUBSET (1..Len(SurveyHeaders)) : Cardinality(d) <= MaxDropped}}
  \cup
  {HeaderCase(sp, pad, dropped, <<e>>) :
     sp \in Spellings, pad \in 0..MaxPad, dropped \in {{}, {4}},
     e \in ExtraColumns}

\* a table whose headers are all the canonical names already
CanonicalTable ==
  Table([i \in 1..Len(CanonicalNames) |-> Str(CanonicalNames[i])],
        << [i \in 1..Len(CanonicalNames) |->
              IF \E k \in 1..7 : numeric_columns[k] = CanonicalNames[i]
              THEN Num(3) ELSE Str(<<"A","n","a">>)] >>,
        RangeIndex(1))

\* what a criterion cell of the source table can hold: a number on the
\* scale 0 to 5 or off it, nothing, or text
RawCells ==
  {Num(k) : k \in (0..5) \cup {-1, 7}}
    \cup {NaN, Str(<<"4">>), Str(<<"-","2">>), Str(<<"a","b","c">>), Str(<<>>)}

BaseCriteria == {ScenarioCriteria, BoundaryCriteria, UpperCriteria}

\* the criterion cells of a row: a base row with the cells at the
\* positions in at replaced by one raw cell
CriteriaCells ==
  UNION {
    {[k \in 1..7 |-> IF k \in at THEN raw ELSE Num(base[k])] :
       raw \in RawCells} :
    base \in BaseCriteria,
    at \in {a \in SUBSET (1..7) : Cardinality(a) <= MaxOverrides} }

Identity == <<Str(<<"2","0","2","4","-","0","1","-","0","1">>), Str(<<"A","n","a"," ","G","a","r","c","U+00ED","a">>), Str(<<"I","T">>), Str(<<"C","R","M"," ","c","o","n"," ","I","A">>)>>

SurveyColumns == [i \in 1..Len(SurveyHeaders) |-> Str(SurveyHeaders[i])]

\* the survey table with a column of comments and three rows, the second
\* without the name of the proposer
CommentedTable ==
  Table(Append(SurveyColumns, Str(<<" ","C","o","m","e","n","t","a","r","i","o"," ">>)),
        << Identity \o Ints(ScenarioCriteria) \o <<Str(<<"o","k">>)>>,
           <<Str(<<"2","0","2","4","-","0","1","-","0","2">>), Str(<<" ">>), Str(<<"I","T">>), Str(<<"X">>)>>
             \o Ints(UpperCriteria) \o <<Str(<<"s","i","n"," ","n","o","m","b","r","e">>)>>,
           <<Str(<<"2","0","2","4","-","0","1","-","0","3">>), Str(<<"L","u","i","s">>), Str(<<"V","e","n","t","a","s">>), Str(<<"P","o","r","t","a","l">>)>>
             \o Ints(BoundaryCriteria) \o <<NaN>> >>,
        RangeIndex(3))

\* the survey table with one row
RowCases ==
  {Table(SurveyColumns, <<Identity \o cells>>, RangeIndex(1)) :
     cells \in CriteriaCells}

\* rows that differ in the proposer, the area and the initiative
RowPool == {
  Identity \o Ints(ScenarioCriteria),
  <<Str(<<"2","0","2","4","-","0","1","-","0","2">>), Str(<<>>), Str(<<"I","T">>), Str(<<"X">>)>> \o Ints(ScenarioCriteria),
  <<Str(<<"2","0","2","4","-","0","1","-","0","3">>), NaN, Str(<<"V","e","n","t","a","s">>), Str(<<"P","o","r","t","a","l">>)>> \o Ints(UpperCriteria),
  <<Str(<<"2","0","2","4","-","0","1","-","0","4">>), Str(<<"L","u","i","s">>), Str(<<"V","e","n","t","a","s">>), Str(<<" ","\t">>)>> \o Ints(UpperCriteria),
  <<Str(<<"2","0","2","4","-","0","1","-","0","5">>), Str(<<"A","n","a"," ","G","a","r","c","U+00C3","U+00AD","a">>), NaN, Str(<<" ","T","a","b","l","e","r","o"," ">>)>>
    \o Ints(BoundaryCriteria),
  <<Str(<<"2","0","2","4","-","0","1","-","0","6">>), Num(7), Str(<<"P","r","o","d","u","c","c","i","U+00C3","U+00B3","n">>), Str(<<"B","o","t">>)>>
    \o <<Num(3), Str(<<"a","b","c">>), NaN, Num(7), Num(-1), Str(<<"5">>), Num(2)>>,
  <<Str(<<"2","0","2","4","-","0","1","-","0","7">>), Str(<<"E","v","a">>), Str(<<"I","T">>), Str(<<"R","o","b","o","t">>)>>
    \o <<Num(7), Num(7), Num(7), Num(7), Num(7), Num(7), Num(7)>> }

RECURSIVE SeqsUpTo(_, _)
SeqsUpTo(S, n) ==
  IF n = 0 THEN {<<>>}
  ELSE LET shorter == SeqsUpTo(S, n - 1)
       IN shorter \cup {Append(s, x) : s \in {q \in shorter : Len(q) = n - 1}, x \in S}

\* the survey table with up to MaxRows rows of the pool
TableCases ==
  {Table(SurveyColumns, rows, RangeIndex(Len(rows))) :
     rows \in SeqsUpTo(RowPool, MaxRows)}

--------------------------------------------------------------------------
(* One run of clean_and_process_data and of the part of main() that shows
   its result; the state of a call of fix_encoding and of a session of the
   application is declared here too, and is idle in these runs *)

VARIABLES
  df,         \* the table clean_and_process_data is called with
  df_clean,   \* its working copy
  pc,         \* where the run is
  st_error,   \* the columns listed by st.error("Columnas faltantes: ...")
  result,     \* what clean_and_process_data returned
  exception,  \* the exception that ended the run, and the line that raised it
  page,       \* what main() shows at the end of the run
  argument,       \* the argument of a call of fix_encoding
  returned,      \* what the call returned
  session_state,  \* st.session_state
  secrets,    \* st.secrets
  widgets,    \* the values the widgets of the page hold between runs
  cache,      \* what st.cache_data holds for load_data_from_url
  run,        \* what the last run of main() did
  df_reported,  \* the table a report is made of
  pdf,        \* what generate_pdf_report put in the report
  summary,    \* what the page shows as the executive summary
  sheet,      \* what the three export URLs of the sheet answer
  fetched,    \* what load_data_from_url returned
  df_processed,  \* the table the filters of the sidebar are applied to
  selected,   \* what the three multiselects hold
  df_filtered \* the table the filters leave

pipeline_vars == <<df, df_clean, pc, st_error, result, exception, page>>
encoding_vars == <<argument, returned>>
main_vars == <<session_state, secrets, widgets, cache, run>>
report_vars == <<df_reported, pdf, summary>>
load_vars == <<sheet, fetched>>
filter_vars == <<df_processed, selected, df_filtered>>
vars == <<pipeline_vars, encoding_vars, main_vars, report_vars, load_vars,
          filter_vars>>

\* fix_encoding has not been called, or has returned value
NotCalled == [called |-> FALSE, value |-> NaN]
Called(value) == [called |-> TRUE, value |-> value]

\* no call of fix_encoding is followed
EncodingIdle == argument = NaN /\ returned = NotCalled

\* no session of the application is followed
MainIdle ==
  /\ session_state = <<>>
  /\ secrets = <<>>
  /\ widgets = <<>>
  /\ cache = <<>>
  /\ run = <<>>

\* no report is followed
ReportIdle == df_reported = EmptyTable /\ pdf = NotCalled /\ summary = NotCalled

\* no call of load_data_from_url is followed
LoadIdle == sheet = <<>> /\ fetched = NotCalled

\* no use of the filters is followed
FilterIdle ==
  df_processed = EmptyTable /\ selected = <<>> /\ df_filtered = NotCalled

NoResult == [none |-> TRUE, table |-> EmptyTable]
Returned(t) == [none |-> FALSE, table |-> t]

NoException == [type |-> "none", line |-> 0]
Exception(type, line) == [type |-> type, line |-> line]

Init ==
  /\ df \in HeaderCases \cup {CanonicalTable, CommentedTable} \cup RowCases
            \cup TableCases
  /\ df_clean = EmptyTable
  /\ pc = "start"
  /\ st_error = <<>>
  /\ result = NoResult
  /\ exception = NoException
  /\ page = "none"
  /\ EncodingIdle
  /\ MainIdle
  /\ ReportIdle
  /\ LoadIdle
  /\ FilterIdle

\* an exception nothing catches ends the run
Raise(type, line) ==
  /\ pc' = "raised"
  /\ exception' = Exception(type, line)
  /\ page' = "exception"

\* lines 266 to 322: the copy, the labels stripped, mapped and renamed; a
\* label that is no str has no strip() and the comprehension raises
ResolveColumns ==
  /\ pc = "start"
  /\ IF \E i \in 1..Len(df.columns) : df.columns[i].t # "str"
     THEN /\ df_clean' = df
          /\ Raise("AttributeError", 270)
     ELSE /\ df_clean' = Table(ResolvedColumns(df.columns), df.rows, df.index)
          /\ pc' = "resolved"
          /\ UNCHANGED <<exception, page>>
  /\ UNCHANGED <<df, st_error, result>>
  /\ UNCHANGED <<encoding_vars, main_vars, report_vars, load_vars, filter_vars>>

\* lines 324 to 335
CheckRequired ==
  /\ pc = "resolved"
  /\ LET missing_columns == MissingColumns(df_clean) IN
     IF missing_columns # <<>>
     THEN /\ st_error' = missing_columns
          /\ result' = NoResult
          /\ pc' = "returned"
     ELSE /\ pc' = "checked"
          /\ UNCHANGED <<st_error, result>>
  /\ UNCHANGED <<df, df_clean, exception, page>>
  /\ UNCHANGED <<encoding_vars, main_vars, report_vars, load_vars, filter_vars>>

\* lines 337 to 341
FixTextColumns ==
  /\ pc = "checked"
  /\ IF FixTextRaises(df_clean)
     THEN /\ Raise("ValueError", 341)
          /\ UNCHANGED df_clean
     ELSE /\ df_clean' = FixTextFrom(df_clean, 1)
          /\ pc' = "fixed"
          /\ UNCHANGED <<exception, page>>
  /\ UNCHANGED <<df, st_error, result>>
  /\ UNCHANGED <<encoding_vars, main_vars, report_vars, load_vars, filter_vars>>

\* lines 343 to 350
FilterValid ==
  /\ pc = "fixed"
  /\ IF FilterValidRaises(df_clean)
     THEN /\ Raise("KeyError", 345)
          /\ UNCHANGED df_clean
     ELSE /\ df_clean' = FilterValidRows(df_clean)
          /\ pc' = "filtered"
          /\ UNCHANGED <<exception, page>>
  /\ UNCHANGED <<df, st_error, result>>
  /\ UNCHANGED <<encoding_vars, main_vars, report_vars, load_vars, filter_vars>>

\* lines 352 to 355
ConvertNumeric ==
  /\ pc = "filtered"
  /\ IF ToNumericRaises(df_clean)
     THEN /\ Raise("TypeError", 355)
          /\ UNCHANGED df_clean
     ELSE /\ df_clean' = ToNumericFrom(df_clean, 1)
          /\ pc' = "numeric"
          /\ UNCHANGED <<exception, page>>
  /\ UNCHANGED <<df, st_error, result>>
  /\ UNCHANGED <<encoding_vars, main_vars, report_vars, load_vars, filter_vars>>

\* lines 357 to 393
Score ==
  /\ pc = "numeric"
  /\ IF ScoreRaises(df_clean)
     THEN /\ Raise("KeyError", 359)
          /\ UNCHANGED <<df_clean, result>>
     ELSE /\ df_clean' = Scored(df_clean)
          /\ result' = Returned(df_clean')
          /\ pc' = "returned"
          /\ UNCHANGED <<exception, page>>
  /\ UNCHANGED <<df, st_error>>
  /\ UNCHANGED <<encoding_vars, main_vars, report_vars, load_vars, filter_vars>>

\* main(), lines 842 to 844 and 1606 to 1608: the dashboard for a table
\* with rows, the warning otherwise
Render ==
  /\ pc = "returned"
  /\ page' = IF ~result.none /\ Len(result.table.rows) > 0
             THEN "dashboard" ELSE "warning"
  /\ pc' = "rendered"
  /\ UNCHANGED <<df, df_clean, st_error, result, exception>>
  /\ UNCHANGED <<encoding_vars, main_vars, report_vars, load_vars, filter_vars>>

Next ==
  \/ ResolveColumns
  \/ CheckRequired
  \/ FixTextColumns
  \/ FilterValid
  \/ ConvertNumeric
  \/ Score
  \/ Render

Spec == Init /\ [][Next]_vars


--------------------------------------------------------------------------
(* Calls of fix_encoding on one value *)

\* how many characters a text built from the alphabet has, at most
MaxText == 3

\* characters the patterns of the replacement table are made of, and a
\* letter that is in none
TextAlphabet ==
  {"n", "U+00C3", "U+00B3", "U+00C1", "U+00C2", "U+00A1",
   "U+00E2", "U+20AC", "U+0153", "\""}

\* what fix_encoding is called with: nothing, the empty text, a number, the
\* patterns of the table, texts of the survey, and every short text over
\* the alphabet
TextInputs ==
  {NaN, Num(7)}
    \cup {Str(replacement_items[i][1]) : i \in 1..Len(replacement_items)}
    \cup {Str(<<"I","n","n","o","v","a","c","i","U+00C3","U+00B3","n">>), Str(<<"I","n","n","o","v","a","c","i","U+00F3","n">>), Str(<<"C","R","M"," ","c","o","n"," ","I","A">>),
          Str(<<"I","n","n","o","v","a","c","i","U+00C3","U+00B3","n"," ","/"," ","d","i","s","r","u","p","c","i","U+00C3","U+00B3","n">>), Str(<<>>),
          Str(<<"U+00C2","U+00BF","C","u","U+00C3","U+00A1","l"," ","e","s"," ","t","u"," ","U+00C3","U+00A1","r","e","a","?">>), Str(<<"P","r","o","d","u","c","c","i","U+00C3","U+00B3","n"," ","U+00E2","U+0153","U+2026"," ","5","U+00C2","U+00B0">>)}
    \cup {Str(s) : s \in SeqsUpTo(TextAlphabet, MaxText)}

EncodingInit ==
  /\ argument \in TextInputs
  /\ returned = NotCalled
  /\ df = EmptyTable
  /\ df_clean = EmptyTable
  /\ pc = "start"
  /\ st_error = <<>>
  /\ result = NoResult
  /\ exception = NoException
  /\ page = "none"
  /\ MainIdle
  /\ ReportIdle
  /\ LoadIdle
  /\ FilterIdle

\* fix_encoding(text), lines 104 to 139
CallFixEncoding ==
  /\ ~returned.called
  /\ returned' = Called(fix_encoding(argument))
  /\ UNCHANGED <<argument, pipeline_vars, main_vars, report_vars, load_vars, filter_vars>>

EncodingNext == CallFixEncoding

EncodingSpec == EncodingInit /\ [][EncodingNext]_vars

--------------------------------------------------------------------------
(* The session: check_session, login_page, check_credentials *)

\* bcrypt: the hash of a password, and bcrypt.checkpw
bcrypt_hashpw(password) == [bcrypt |-> password]
bcrypt_checkpw(password, hashed) == hashed = bcrypt_hashpw(password)

\* st.secrets when it is configured, and when it is not
ConfiguredSecrets ==
  [present |-> TRUE,
   users |-> << [username |-> "ana", password |-> bcrypt_hashpw("clave-ana")],
                [username |-> "luis", password |-> bcrypt_hashpw("clave-luis")] >>]
NoSecrets == [present |-> FALSE, users |-> <<>>]

\* a variant: an entry with the username is enough
check_credentials_by_name(store, username, password) ==
  [ok |-> store.present /\ \E i \in 1..Len(store.users) :
                             store.users[i].username = username,
   error |-> ~store.present]

\* check_credentials, lines 523 to 536: the first entry with the username
\* decides; reading a store that is not there raises, which is caught
check_credentials(store, username, password) ==
  IF ~store.present THEN [ok |-> FALSE, error |-> TRUE]
  ELSE LET matches == {i \in 1..Len(store.users) : store.users[i].username = username}
       IN IF matches = {} THEN [ok |-> FALSE, error |-> FALSE]
          ELSE LET first == CHOOSE i \in matches : \A j \in matches : i <= j
               IN [ok |-> bcrypt_checkpw(password, store.users[first].password),
                   error |-> FALSE]

\* a dict with the key set to the value, and without the key
SetKey(d, k, v) == [x \in DOMAIN d \cup {k} |-> IF x = k THEN v ELSE d[x]]
DelKey(d, k) == [x \in DOMAIN d \ {k} |-> d[x]]

\* a variant: a session that has no flag is taken as authenticated
check_session_open(state) ==
  LET s1 == IF "authenticated" \in DOMAIN state THEN state
            ELSE SetKey(state, "authenticated", TRUE)
  IN IF "session_time" \in DOMAIN s1 THEN s1 ELSE SetKey(s1, "session_time", "now")

\* check_session, lines 538 to 544
check_session(state) ==
  LET s1 == IF "authenticated" \in DOMAIN state THEN state
            ELSE SetKey(state, "authenticated", FALSE)
  IN IF "session_time" \in DOMAIN s1 THEN s1 ELSE SetKey(s1, "session_time", "now")

\* lines 568 to 571
LoggedIn(state, username, remember_session) ==
  SetKey(SetKey(SetKey(SetKey(state,
    "authenticated", TRUE), "session_time", "now"),
    "username", username), "remember_session", remember_session)

\* a variant: only the flag is cleared
LoggedOutFlagOnly(state) == SetKey(state, "authenticated", FALSE)

\* lines 798 to 804
LoggedOut(state) ==
  DelKey(DelKey(DelKey(SetKey(state,
    "authenticated", FALSE), "session_time"), "username"), "remember_session")

--------------------------------------------------------------------------
(* The loaders *)

\* load_data_from_url, lines 145 to 199: responses are the answers the
\* three URLs would give, each an error or the table read from the answer;
\* the result, and how many URLs were contacted
RECURSIVE TryUrls(_, _)
TryUrls(responses, i) ==
  IF i > Len(responses)
  THEN [value |-> NoResult, contacted |-> Len(responses),
        messages |-> {"load_error", "remediation"}]
  ELSE IF responses[i].ok /\ Len(responses[i].table.rows) > 0
       THEN [value |-> Returned(responses[i].table), contacted |-> i,
             messages |-> {"load_success"}]
       ELSE TryUrls(responses, i + 1)

\* a variant: the first URL that answers is taken, with rows or without
load_data_from_url_first_answer(responses) ==
  IF \E i \in 1..Len(responses) : responses[i].ok
  THEN LET i == CHOOSE k \in 1..Len(responses) :
                  responses[k].ok /\ \A j \in 1..(k - 1) : ~responses[j].ok
       IN [value |-> Returned(responses[i].table), contacted |-> i,
           messages |-> {"load_success"}]
  ELSE [value |-> NoResult, contacted |-> Len(responses),
        messages |-> {"load_error", "remediation"}]

load_data_from_url(responses) == TryUrls(responses, 1)

\* load_data_from_file, lines 201 to 212: a file that cannot be read gives
\* None after st.error
load_data_from_file(uploaded_file) ==
  IF uploaded_file.readable THEN Returned(uploaded_file.table) ELSE NoResult

--------------------------------------------------------------------------
(* The dashboard: filters, ranking, report *)

\* sorted(df_processed[name].dropna().unique().tolist()), as a set
Available(t, name) ==
  {Cell(t, r, name) : r \in 1..Len(t.rows)} \ {NaN}

\* lines 861 to 873: the processes named in the column of related
\* processes, each cell split at its commas; none without the column
unique_processes(t) ==
  IF ~HasColumn(t, <<"P","r","o","c","e","s","o","_","R","e","l","a","c","i","o","n","a","d","o">>) THEN {}
  ELSE UNION {
         {Strip(Split(Cell(t, r, <<"P","r","o","c","e","s","o","_","R","e","l","a","c","i","o","n","a","d","o">>).s)[k]) :
            k \in 1..Len(Split(Cell(t, r, <<"P","r","o","c","e","s","o","_","R","e","l","a","c","i","o","n","a","d","o">>).s))} :
         r \in {q \in 1..Len(t.rows) : Cell(t, q, <<"P","r","o","c","e","s","o","_","R","e","l","a","c","i","o","n","a","d","o">>).t = "str"} }

\* a variant: a dimension with nothing selected excludes every row
ApplyFiltersStrict(t, areas_selected, prioridades_selected, procesos_selected) ==
  LET mask == [r \in 1..Len(t.rows) |->
                 /\ Cell(t, r, <<"A","r","e","a">>) \in areas_selected
                 /\ Cell(t, r, <<"P","r","i","o","r","i","d","a","d">>) \in prioridades_selected
                 /\ HasColumn(t, <<"P","r","o","c","e","s","o","_","R","e","l","a","c","i","o","n","a","d","o">>) =>
                      \E proc \in procesos_selected :
                        Contains(Lower(proc),
                                 Lower(ToStr(Cell(t, r, <<"P","r","o","c","e","s","o","_","R","e","l","a","c","i","o","n","a","d","o">>))))]
  IN Table(t.columns, SelectRows(t.rows, mask), SelectRows(t.index, mask))

\* lines 876 to 886: an empty selection leaves the table as it is; isin
\* finds no missing value, and the text of a missing process is str(nan)
ApplyFilters(t, areas_selected, prioridades_selected, procesos_selected) ==
  LET mask == [r \in 1..Len(t.rows) |->
                 /\ areas_selected # {} => Cell(t, r, <<"A","r","e","a">>) \in areas_selected
                 /\ prioridades_selected # {} =>
                      Cell(t, r, <<"P","r","i","o","r","i","d","a","d">>) \in prioridades_selected
                 /\ (procesos_selected # {} /\ HasColumn(t, <<"P","r","o","c","e","s","o","_","R","e","l","a","c","i","o","n","a","d","o">>)) =>
                      \E proc \in procesos_selected :
                        Contains(Lower(proc),
                                 Lower(ToStr(Cell(t, r, <<"P","r","o","c","e","s","o","_","R","e","l","a","c","i","o","n","a","d","o">>))))]
  IN Table(t.columns, SelectRows(t.rows, mask), SelectRows(t.index, mask))

\* how many initiatives the ranking lists, line 1007
RankingShown == 10

\* the orders sort_values('Puntuacion_Ponderada', ascending=False) can put
\* the rows of t in: the sort is not stable, rows with equal scores come
\* in any order
SortedOrders(t) ==
  {p \in [1..Len(t.rows) -> 1..Len(t.rows)] :
     /\ \A i, j \in 1..Len(t.rows) : p[i] = p[j] => i = j
     /\ \A i, j \in 1..Len(t.rows) :
          i < j => FGe(Cell(t, p[i], <<"P","u","n","t","u","a","c","i","o","n","_","P","o","n","d","e","r","a","d","a">>).f,
                       Cell(t, p[j], <<"P","u","n","t","u","a","c","i","o","n","_","P","o","n","d","e","r","a","d","a">>).f)}

\* a variant: the number shown is the label of the row itself
RankNumberFromZero(idx) == idx

\* the number shown for the row with label idx after reset_index, line 1019
RankNumber(idx) == idx + 1

\* lines 1005 to 1026: the cards of the ranking, in order; row is the
\* position the initiative has in the filtered table
Ranking(t, order) ==
  [i \in 1..(IF Len(t.rows) < RankingShown THEN Len(t.rows) ELSE RankingShown) |->
     [number |-> RankNumber(i - 1),
      row |-> order[i],
      score |-> Cell(t, order[i], <<"P","u","n","t","u","a","c","i","o","n","_","P","o","n","d","e","r","a","d","a">>).f]]

\* a variant: every row is counted, whatever its tier
CountTierOfAll(t, p) == Len(t.rows)

\* how many rows of t have the tier p
CountTier(t, p) ==
  Cardinality({r \in 1..Len(t.rows) : Cell(t, r, <<"P","r","i","o","r","i","d","a","d">>) = Str(p)})

\* f"{count/total_initiatives*100:.1f}%": the tenths of a percent that the
\* text shows, the quotient rounded to one decimal, a tie to the even digit
Percentage(count, total_initiatives) ==
  LET quotient == (count * 1000) \div total_initiatives
      rest == (count * 1000) % total_initiatives
  IN IF 2 * rest > total_initiatives
        \/ (2 * rest = total_initiatives /\ quotient % 2 = 1)
     THEN quotient + 1
     ELSE quotient

\* generate_pdf_report, lines 447 to 463 and 504 to 509: the summary and the
\* numbers in the recommendations; with no rows the percentages divide by
\* zero
generate_pdf_report(t) ==
  IF Len(t.rows) = 0
  THEN [raised |-> TRUE, total_initiatives |-> 0,
        high_priority |-> 0, medium_priority |-> 0, low_priority |-> 0,
        percentages |-> <<>>, recomendaciones |-> <<>>]
  ELSE [raised |-> FALSE, total_initiatives |-> Len(t.rows),
        high_priority |-> CountTier(t, <<"A","l","t","a">>),
        medium_priority |-> CountTier(t, <<"M","e","d","i","a">>),
        low_priority |-> CountTier(t, <<"B","a","j","a">>),
        percentages |->
          <<Percentage(CountTier(t, <<"A","l","t","a">>), Len(t.rows)),
            Percentage(CountTier(t, <<"M","e","d","i","a">>), Len(t.rows)),
            Percentage(CountTier(t, <<"B","a","j","a">>), Len(t.rows))>>,
        recomendaciones |-> <<CountTier(t, <<"A","l","t","a">>), CountTier(t, <<"M","e","d","i","a">>)>>]

\* lines 1459 to 1462, 1496 to 1498 and 1562 to 1566: the summary on the
\* page; its percentages are "0%" for no rows, and a recommendation is
\* shown for a tier that has initiatives
executive_summary(t) ==
  [total_initiatives |-> Len(t.rows),
   high_priority |-> CountTier(t, <<"A","l","t","a">>),
   medium_priority |-> CountTier(t, <<"M","e","d","i","a">>),
   low_priority |-> CountTier(t, <<"B","a","j","a">>),
   percentages |->
     IF Len(t.rows) > 0
     THEN <<Percentage(CountTier(t, <<"A","l","t","a">>), Len(t.rows)),
            Percentage(CountTier(t, <<"M","e","d","i","a">>), Len(t.rows)),
            Percentage(CountTier(t, <<"B","a","j","a">>), Len(t.rows))>>
     ELSE <<0, 0, 0>>,
   recommendations |->
     (IF CountTier(t, <<"A","l","t","a">>) > 0 THEN <<CountTier(t, <<"A","l","t","a">>)>> ELSE <<>>)
       \o (IF CountTier(t, <<"M","e","d","i","a">>) > 0 THEN <<CountTier(t, <<"M","e","d","i","a">>)>> ELSE <<>>)]

\* how many initiatives the top section of the report lists, line 485
TopShown == 5

\* the weighted score of row r of t
ScoreOf(t, r) == Cell(t, r, <<"P","u","n","t","u","a","c","i","o","n","_","P","o","n","d","e","r","a","d","a">>).f

\* a variant: of the rows with equal scores the later one comes first
StablePositionLastFirst(t, r) ==
  1 + Cardinality({q \in 1..Len(t.rows) :
        \/ ~FGe(ScoreOf(t, r), ScoreOf(t, q))
        \/ /\ FGe(ScoreOf(t, r), ScoreOf(t, q)) /\ FGe(ScoreOf(t, q), ScoreOf(t, r))
           /\ q > r})

\* the place of row r in the stable descending order of the scores, the
\* mergesort of nlargest's fast path with keep='first'
StablePosition(t, r) ==
  1 + Cardinality({q \in 1..Len(t.rows) :
        \/ ~FGe(ScoreOf(t, r), ScoreOf(t, q))
        \/ /\ FGe(ScoreOf(t, r), ScoreOf(t, q)) /\ FGe(ScoreOf(t, q), ScoreOf(t, r))
           /\ q < r})

\* df.nlargest(n, 'Puntuacion_Ponderada'), line 485, as the row positions it
\* can return: with n >= len(df) pandas returns
\* sort_values(ascending=False).head(n), whose sort is not stable; otherwise
\* the first n rows of the stable order
nlargest(t, n) ==
  IF n >= Len(t.rows)
  THEN SortedOrders(t)
  ELSE {[i \in 1..n |-> CHOOSE r \in 1..Len(t.rows) : StablePosition(t, r) = i]}

\* lines 487 to 499: the entries of the top section for the rows top_5
TopSection(t, top_5) ==
  [i \in 1..Len(top_5) |->
     [number |-> i,
      row |-> top_5[i],
      nombre_iniciativa |-> Cell(t, top_5[i], <<"N","o","m","b","r","e","_","I","n","i","c","i","a","t","i","v","a">>),
      score |-> ScoreOf(t, top_5[i])]]

--------------------------------------------------------------------------
(* Runs of main() in one browser session *)

\* the files a user uploads
TiedRows == <<
  Identity \o Ints(ScenarioCriteria),
  <<Str(<<"2","0","2","4","-","0","1","-","0","2">>), Str(<<"L","u","i","s">>), Str(<<"V","e","n","t","a","s">>), Str(<<"P","o","r","t","a","l">>)>>
    \o Ints(ScenarioCriteria),
  <<Str(<<"2","0","2","4","-","0","1","-","0","3">>), Str(<<"E","v","a">>), Str(<<"I","T">>), Str(<<"B","o","t">>)>>
    \o Ints(BoundaryCriteria) >>

BlankRows == <<
  <<Str(<<"2","0","2","4","-","0","1","-","0","2">>), Str(<<>>), Str(<<"I","T">>), Str(<<"X">>)>> \o Ints(ScenarioCriteria),
  <<Str(<<"2","0","2","4","-","0","1","-","0","3">>), Str(<<"L","u","i","s">>), Str(<<"V","e","n","t","a","s">>), NaN>> \o Ints(UpperCriteria) >>

SurveyTable(rows) == Table(SurveyColumns, rows, RangeIndex(Len(rows)))

Uploads == <<
  [name |-> "iniciativas.csv", readable |-> TRUE, table |-> SurveyTable(TiedRows)],
  [name |-> "sin_nombres.csv", readable |-> TRUE, table |-> SurveyTable(BlankRows)],
  [name |-> "sin_columna.csv", readable |-> TRUE,
   table |-> HeaderCase("utf8", 0, {5}, <<>>)],
  [name |-> "con_anio.xlsx", readable |-> TRUE,
   table |-> HeaderCase("utf8", 0, {},
               <<[h |-> Num(2024), cells |-> <<Num(1), Num(2)>>]>>)],
  [name |-> "repetida.csv", readable |-> TRUE,
   table |-> HeaderCase("utf8", 0, {},
               <<[h |-> Str(<<" ","N","i","v","e","l"," ","d","e"," ","i","m","p","a","c","t","o">>), cells |-> <<Num(1), Num(2)>>]>>)],
  [name |-> "danado.xlsx", readable |-> FALSE, table |-> EmptyTable] >>

\* the tables a run can load, and clean_and_process_data of each of them,
\* computed once
Loadable ==
  <<Uploads[1].table, Uploads[2].table, Uploads[3].table, Uploads[4].table,
    Uploads[5].table, SurveyTable(<<>>), HeaderCase("mojibake", 0, {}, <<>>)>>

RECURSIVE ProcessedUpTo(_)
ProcessedUpTo(n) ==
  IF n = 0 THEN <<>>
  ELSE Append(ProcessedUpTo(n - 1), clean_and_process_data(Loadable[n]))

Processed == ProcessedUpTo(Len(Loadable))

ProcessedOf(t) == Processed[CHOOSE i \in 1..Len(Loadable) : Loadable[i] = t]

\* what one export URL of the sheet answers: an error, or a table
UrlError == [ok |-> FALSE, table |-> EmptyTable]
UrlTable(t) == [ok |-> TRUE, table |-> t]
UrlAnswers ==
  {UrlError, UrlTable(Loadable[6]), UrlTable(Loadable[1]), UrlTable(Loadable[7])}

\* the answers of the three URLs of lines 151 to 155
SheetAnswers == [1..3 -> UrlAnswers]

Usernames == {"ana", "luis", "eva"}
Passwords == {"clave-ana", "clave-luis"}

\* what the user did to start the run
Event(kind) ==
  [kind |-> kind, username |-> "", password |-> "", remember_session |-> TRUE]
LoginEvent(username, password, remember_session) ==
  [kind |-> "login", username |-> username, password |-> password,
   remember_session |-> remember_session]

\* the widgets as a page shows them first: the radio on its first option,
\* no file, no filter widgets
DefaultWidgets ==
  [data_source |-> "Google Sheets", uploaded_file |-> 0, filters_shown |-> FALSE,
   areas_disponibles |-> {}, prioridades_disponibles |-> {},
   procesos_disponibles |-> {},
   areas_selected |-> {}, prioridades_selected |-> {}, procesos_selected |-> {}]

WithoutFilters(w) ==
  [w EXCEPT !.filters_shown = FALSE,
            !.areas_disponibles = {}, !.prioridades_disponibles = {},
            !.procesos_disponibles = {},
            !.areas_selected = {}, !.prioridades_selected = {},
            !.procesos_selected = {}]

EmptyCache == [filled |-> FALSE, value |-> NoResult]
\* a variant: nothing is kept
CachedNever(value) == [filled |-> FALSE, value |-> NoResult]

\* the cache after load_data_from_url returned value
Cached(value) == [filled |-> TRUE, value |-> value]

NoRun ==
  [ran |-> FALSE, event |-> "none", first |-> FALSE, gate |-> FALSE,
   rerun |-> FALSE,
   contacted |-> 0, loaded |-> FALSE, processed |-> FALSE, displayed |-> FALSE,
   filtered |-> EmptyTable, ranking |-> <<>>, messages |-> {}, export |-> "none",
   form |-> [username |-> "", password |-> ""]]

\* what a run leaves behind
Ran(state, w, c, shown, raised, loaded, processed, missing, done) ==
  [session_state |-> state, widgets |-> w, cache |-> c, page |-> shown,
   exception |-> raised, df |-> loaded, result |-> processed,
   st_error |-> missing, run |-> done]

\* login_page(), lines 552 to 575, in a run whose flag is false
LoginRun(state, store, c, event, first) ==
  LET submitted == event.kind = "login"
      checked == check_credentials(store, event.username, event.password)
      ok == submitted /\ checked.ok
  IN Ran(IF ok THEN LoggedIn(state, event.username, event.remember_session)
         ELSE state,
         DefaultWidgets, c, "login", NoException, EmptyTable, NoResult, <<>>,
         [NoRun EXCEPT
            !.ran = TRUE, !.event = event.kind, !.first = first, !.rerun = ok,
            !.form = IF submitted
                     THEN [username |-> event.username, password |-> event.password]
                     ELSE @,
            !.messages =
              IF ~submitted THEN {}
              ELSE IF ok THEN {"login_success"}
              ELSE {"login_error"}
                     \cup (IF checked.error THEN {"credentials_error"} ELSE {})])

\* lines 796 to 806: the logout button was pressed
LogoutRun(state, w, c, first) ==
  Ran(LoggedOut(state), w, c, "logout", NoException, EmptyTable, NoResult, <<>>,
      [NoRun EXCEPT !.ran = TRUE, !.event = "logout", !.first = first,
                    !.gate = TRUE, !.rerun = TRUE,
                    !.messages = {"logout_success"}])

\* lines 844 to 1604: the dashboard for a processed table with rows
DashboardRun(state, w, c, event, loaded, processed, done) ==
  LET t == processed.table
      areas_disponibles == Available(t, <<"A","r","e","a">>)
      prioridades_disponibles == Available(t, <<"P","r","i","o","r","i","d","a","d">>)
      procesos_disponibles == unique_processes(t)
      kept == /\ w.filters_shown
              /\ w.areas_disponibles = areas_disponibles
              /\ w.prioridades_disponibles = prioridades_disponibles
              /\ w.procesos_disponibles = procesos_disponibles
      areas_selected == IF kept THEN w.areas_selected ELSE areas_disponibles
      prioridades_selected ==
        IF kept THEN w.prioridades_selected ELSE prioridades_disponibles
      procesos_selected ==
        IF kept THEN w.procesos_selected ELSE procesos_disponibles
      shown_table ==
        ApplyFilters(t, areas_selected, prioridades_selected, procesos_selected)
      report == generate_pdf_report(shown_table)
  IN Ran(state,
         [w EXCEPT !.filters_shown = TRUE,
                   !.areas_disponibles = areas_disponibles,
                   !.prioridades_disponibles = prioridades_disponibles,
                   !.procesos_disponibles = procesos_disponibles,
                   !.areas_selected = areas_selected,
                   !.prioridades_selected = prioridades_selected,
                   !.procesos_selected = procesos_selected],
         c, "dashboard", NoException, loaded, Returned(t), <<>>,
         [done EXCEPT
            !.processed = TRUE, !.displayed = TRUE, !.filtered = shown_table,
            !.messages =
              @ \cup (IF event.kind = "pdf"
                      THEN IF report.raised THEN {"pdf_error"} ELSE {"pdf_success"}
                      ELSE {}),
            !.export =
              IF event.kind = "pdf" /\ ~report.raised THEN "pdf"
              ELSE IF event.kind = "csv" THEN "csv" ELSE "none"])

\* lines 808 to 1608 in a run whose flag is true; process_dates, line 841,
\* only adds date columns, which no rule of the resolver matches
DataRun(state, w, c, event, answers, first) ==
  LET sheets == w.data_source = "Google Sheets"
      c1 == IF sheets /\ event.kind = "refresh" THEN EmptyCache ELSE c
      fetch == load_data_from_url(answers)
      load ==
        IF sheets
        THEN IF c1.filled THEN [value |-> c1.value, contacted |-> 0] ELSE fetch
        ELSE IF w.uploaded_file = 0 THEN [value |-> NoResult, contacted |-> 0]
        ELSE [value |-> load_data_from_file(Uploads[w.uploaded_file]),
              contacted |-> 0]
      c2 == IF sheets THEN Cached(load.value) ELSE c1
      said == IF sheets
              THEN IF load.value.none THEN {"load_error", "remediation"}
                   ELSE {"load_success"}
              ELSE IF w.uploaded_file # 0 /\ load.value.none THEN {"file_error"}
                   ELSE {}
      done == [NoRun EXCEPT !.ran = TRUE, !.event = event.kind,
                            !.first = first, !.gate = TRUE,
                            !.contacted = load.contacted,
                            !.loaded = ~load.value.none, !.messages = said]
  IN
  IF load.value.none
  THEN Ran(state, WithoutFilters(w), c2, "info", NoException, EmptyTable, NoResult,
           <<>>, [done EXCEPT !.messages = @ \cup {"select_source_info"}])
  ELSE
    LET loaded == load.value.table
        processed == ProcessedOf(loaded)
    IN
    IF processed.kind = "raised"
    THEN Ran(state, WithoutFilters(w), c2, "exception", processed.exception, loaded,
             NoResult, <<>>, [done EXCEPT !.processed = TRUE])
    ELSE IF processed.kind = "none"
    THEN Ran(state, WithoutFilters(w), c2, "warning", NoException, loaded, NoResult,
             processed.missing,
             [done EXCEPT !.processed = TRUE,
                          !.messages = @ \cup {"missing_columns", "no_valid_data"}])
    ELSE IF Len(processed.table.rows) = 0
    THEN Ran(state, WithoutFilters(w), c2, "warning", NoException, loaded,
             Returned(processed.table), <<>>,
             [done EXCEPT !.processed = TRUE,
                          !.messages = @ \cup {"no_valid_data"}])
    ELSE DashboardRun(state, w, c2, event, loaded, processed, done)

\* main(), lines 774 to 1660, as one run of the script
main(state, store, w, c, event, answers) ==
  LET first == "authenticated" \notin DOMAIN state
      checked == check_session(state)
  IN IF ~checked["authenticated"]
     THEN LoginRun(checked, store, c, event, first)
     ELSE IF event.kind = "logout"
          THEN LogoutRun(checked, w, c, first)
          ELSE DataRun(checked, w, c, event, answers, first)

--------------------------------------------------------------------------
(* The session as a state machine: each step is one interaction of the
   user and the run of main() it starts *)

MainInit ==
  /\ session_state = <<>>
  /\ secrets \in {ConfiguredSecrets, NoSecrets}
  /\ widgets = DefaultWidgets
  /\ cache = EmptyCache
  /\ run = NoRun
  /\ page = "none"
  /\ exception = NoException
  /\ df = EmptyTable
  /\ result = NoResult
  /\ st_error = <<>>
  /\ df_clean = EmptyTable
  /\ pc = "start"
  /\ EncodingIdle
  /\ ReportIdle
  /\ LoadIdle
  /\ FilterIdle

\* what the user does to start a run: the widgets as the user leaves them,
\* and the event
Interaction(w, event) == [widgets |-> w, event |-> event]

\* the user can act on the widgets of the page when no rerun is pending
Idle == run.ran /\ ~run.rerun
Authenticated == Idle /\ page \in {"dashboard", "warning", "info", "exception"}

\* the browser opens the page, or st.rerun() runs the script again
Rerun ==
  IF ~run.ran \/ run.rerun THEN {Interaction(widgets, Event("rerun"))} ELSE {}

\* the login form is submitted, line 563
SubmitLogin ==
  IF Idle /\ page = "login"
  THEN {Interaction(widgets, LoginEvent(username, password, remember)) :
          username \in Usernames, password \in Passwords, remember \in BOOLEAN}
  ELSE {}

\* the logout button, line 797
Logout ==
  IF Authenticated THEN {Interaction(widgets, Event("logout"))} ELSE {}

\* the radio of line 815
ChooseSource ==
  IF Authenticated
  THEN {Interaction([widgets EXCEPT !.data_source = data_source,
                                    !.uploaded_file = 0], Event("source")) :
          data_source \in {"Google Sheets", "Subir archivo"} \ {widgets.data_source}}
  ELSE {}

\* the file uploader of line 829
Upload ==
  IF Authenticated /\ widgets.data_source = "Subir archivo"
  THEN {Interaction([widgets EXCEPT !.uploaded_file = uploaded_file],
                    Event("upload")) :
          uploaded_file \in (1..Len(Uploads)) \ {widgets.uploaded_file}}
  ELSE {}

\* the refresh button of line 823
Refresh ==
  IF Authenticated /\ widgets.data_source = "Google Sheets"
  THEN {Interaction(widgets, Event("refresh"))} ELSE {}

\* the multiselects of lines 856 to 870
ChangeFilters ==
  IF Authenticated /\ widgets.filters_shown
  THEN {Interaction([widgets EXCEPT !.areas_selected = areas_selected,
                                    !.prioridades_selected = prioridades_selected,
                                    !.procesos_selected = procesos_selected],
                    Event("filters")) :
          areas_selected \in SUBSET widgets.areas_disponibles,
          prioridades_selected \in SUBSET widgets.prioridades_disponibles,
          procesos_selected \in SUBSET widgets.procesos_disponibles}
       \ {Interaction(widgets, Event("filters"))}
  ELSE {}

\* the PDF button of line 1431
RequestPdf ==
  IF Authenticated /\ page = "dashboard"
  THEN {Interaction(widgets, Event("pdf"))} ELSE {}

\* the CSV button of line 1447
RequestCsv ==
  IF Authenticated /\ page = "dashboard"
  THEN {Interaction(widgets, Event("csv"))} ELSE {}

Interactions ==
  Rerun \cup SubmitLogin \cup Logout \cup ChooseSource \cup Upload \cup Refresh
    \cup ChangeFilters \cup RequestPdf \cup RequestCsv

\* the run asks the sheet: the flag is set, the source is the sheet, and the
\* cache is empty or is being cleared (lines 778, 797, 820 to 825)
Fetches(w, event) ==
  /\ check_session(session_state)["authenticated"]
  /\ event.kind # "logout"
  /\ w.data_source = "Google Sheets"
  /\ ~cache.filled \/ event.kind = "refresh"

\* Streamlit runs main() from the top at every interaction: the state after
\* the run that the interaction starts; the sheet's answers matter to a run
\* that asks, and the sort picks the order of equal scores
Run ==
  \E interaction \in Interactions :
  \E answers \in IF Fetches(interaction.widgets, interaction.event)
                  THEN SheetAnswers ELSE {[i \in 1..3 |-> UrlError]} :
  \E after \in {main(session_state, secrets, interaction.widgets, cache,
                      interaction.event, answers)} :
  \E order \in SortedOrders(after.run.filtered) :
    /\ session_state' = after.session_state
    /\ widgets' = after.widgets
    /\ cache' = after.cache
    /\ page' = after.page
    /\ exception' = after.exception
    /\ df' = after.df
    /\ result' = after.result
    /\ st_error' = after.st_error
    /\ run' = IF after.run.displayed
              THEN [after.run EXCEPT !.ranking = Ranking(after.run.filtered, order)]
              ELSE after.run
    /\ UNCHANGED <<secrets, df_clean, pc, encoding_vars, report_vars, load_vars, filter_vars>>

MainNext == Run

MainSpec == MainInit /\ [][MainNext]_vars

--------------------------------------------------------------------------
(* The executive report of a table of scored initiatives: the PDF of
   generate_pdf_report and the summary of the page *)

\* how many initiatives a reported table has, at most
MaxReportRows == 6

\* three initiatives, one of each tier
ReportPool == <<
  Identity \o Ints(ScenarioCriteria),
  <<Str(<<"2","0","2","4","-","0","1","-","0","2">>), Str(<<"L","u","i","s">>), Str(<<"V","e","n","t","a","s">>), Str(<<"P","o","r","t","a","l">>)>>
    \o Ints(<<3, 3, 3, 3, 3, 3, 3>>),
  <<Str(<<"2","0","2","4","-","0","1","-","0","3">>), Str(<<"E","v","a">>), Str(<<"I","T">>), Str(<<"B","o","t">>)>>
    \o Ints(BoundaryCriteria) >>

\* what clean_and_process_data makes of them
ReportBase == clean_and_process_data(SurveyTable(ReportPool)).table

\* the tables of up to MaxReportRows processed initiatives
ReportTables ==
  {Table(ReportBase.columns, [i \in 1..Len(s) |-> ReportBase.rows[s[i]]],
         RangeIndex(Len(s))) :
     s \in SeqsUpTo(1..Len(ReportPool), MaxReportRows)}

ReportInit ==
  /\ df_reported \in ReportTables
  /\ pdf = NotCalled
  /\ summary = NotCalled
  /\ df = EmptyTable
  /\ df_clean = EmptyTable
  /\ pc = "start"
  /\ st_error = <<>>
  /\ result = NoResult
  /\ exception = NoException
  /\ page = "none"
  /\ EncodingIdle
  /\ MainIdle
  /\ LoadIdle
  /\ FilterIdle

\* generate_pdf_report(df_filtered), lines 399 to 517, called at line 1432
\* inside a try: an exception leaves no report
GeneratePdfReport ==
  /\ ~pdf.called
  /\ \E report \in {generate_pdf_report(df_reported)} :
     \E top_5 \in nlargest(df_reported, TopShown) :
       pdf' = Called([built |-> ~report.raised,
                      resumen |-> report,
                      top |-> IF report.raised THEN <<>>
                              ELSE TopSection(df_reported, top_5)])
  /\ UNCHANGED <<df_reported, summary, pipeline_vars, encoding_vars, main_vars, load_vars, filter_vars>>

\* lines 1457 to 1566: the summary of the page
ShowSummary ==
  /\ ~summary.called
  /\ summary' = Called(executive_summary(df_reported))
  /\ UNCHANGED <<df_reported, pdf, pipeline_vars, encoding_vars, main_vars, load_vars, filter_vars>>

ReportNext == GeneratePdfReport \/ ShowSummary

ReportSpec == ReportInit /\ [][ReportNext]_vars

--------------------------------------------------------------------------
(* One call of load_data_from_url with nothing in the cache *)

LoadInit ==
  /\ sheet \in SheetAnswers
  /\ fetched = NotCalled
  /\ df = EmptyTable
  /\ df_clean = EmptyTable
  /\ pc = "start"
  /\ st_error = <<>>
  /\ result = NoResult
  /\ exception = NoException
  /\ page = "none"
  /\ EncodingIdle
  /\ MainIdle
  /\ ReportIdle
  /\ FilterIdle

\* load_data_from_url(), lines 146 to 199
CallLoadDataFromUrl ==
  /\ ~fetched.called
  /\ fetched' = Called(load_data_from_url(sheet))
  /\ UNCHANGED <<sheet, pipeline_vars, encoding_vars, main_vars, report_vars, filter_vars>>

LoadNext == CallLoadDataFromUrl

LoadSpec == LoadInit /\ [][LoadNext]_vars

--------------------------------------------------------------------------
(* The filters of the sidebar on a processed table *)

\* the question of the survey about the related processes
ProcessHeader == <<"U+00BF","C","o","n"," ","q","u","U+00E9"," ","p","r","o","c","e","s","o","/","s"," ","c","r","e","e","s"," ","q","u","e"," ","s","e"," ","r","e","l","a","c","i","o","n","a"," ","t","u"," ","i","d","e","a","?">>

\* four initiatives and what each answered to that question
FilterPool == <<
  Identity \o Ints(ScenarioCriteria) \o <<Str(<<"V","e","n","t","a","s",","," ","C","o","m","p","r","a","s">>)>>,
  <<Str(<<"2","0","2","4","-","0","1","-","0","2">>), Str(<<"L","u","i","s">>), Str(<<"V","e","n","t","a","s">>), Str(<<"P","o","r","t","a","l">>)>>
    \o Ints(<<3, 3, 3, 3, 3, 3, 3>>) \o <<Str(<<"c","o","m","p","r","a","s">>)>>,
  <<Str(<<"2","0","2","4","-","0","1","-","0","3">>), Str(<<"E","v","a">>), NaN, Str(<<"B","o","t">>)>>
    \o Ints(BoundaryCriteria) \o <<Str(<<"V","e","n","t","a","s",",">>)>>,
  <<Str(<<"2","0","2","4","-","0","1","-","0","4">>), Str(<<"L","e","o">>), Str(<<"I","T">>), Str(<<"R","o","b","o","t">>)>>
    \o Ints(ScenarioCriteria) \o <<NaN>> >>

\* the survey table of those initiatives, with the question or without it
FilterSource(asked) ==
  IF asked
  THEN Table(Append(SurveyColumns, Str(ProcessHeader)), FilterPool,
             RangeIndex(Len(FilterPool)))
  ELSE Table(SurveyColumns,
             [r \in 1..Len(FilterPool) |-> SubSeq(FilterPool[r], 1, Len(SurveyColumns))],
             RangeIndex(Len(FilterPool)))

\* what clean_and_process_data makes of them
FilterBases == {clean_and_process_data(FilterSource(asked)).table : asked \in BOOLEAN}

\* the processed tables: any of the initiatives, in their order
FilterTables ==
  {Table(base.columns,
         SelectRows(base.rows, [r \in 1..Len(base.rows) |-> r \in keep]),
         SelectRows(base.index, [r \in 1..Len(base.rows) |-> r \in keep])) :
     base \in FilterBases, keep \in SUBSET (1..Len(FilterPool))}

\* what the three multiselects can hold for the table t
Selections(t) ==
  [areas : SUBSET Available(t, <<"A","r","e","a">>),
   prioridades : SUBSET Available(t, <<"P","r","i","o","r","i","d","a","d">>),
   procesos : SUBSET unique_processes(t)]

\* lines 853 to 875: the multiselects as they are first shown
DefaultSelection(t) ==
  [areas |-> Available(t, <<"A","r","e","a">>),
   prioridades |-> Available(t, <<"P","r","i","o","r","i","d","a","d">>),
   procesos |-> unique_processes(t)]

FilterInit ==
  /\ df_processed \in FilterTables
  /\ selected \in Selections(df_processed)
  /\ df_filtered = NotCalled
  /\ df = EmptyTable
  /\ df_clean = EmptyTable
  /\ pc = "start"
  /\ st_error = <<>>
  /\ result = NoResult
  /\ exception = NoException
  /\ page = "none"
  /\ EncodingIdle
  /\ MainIdle
  /\ ReportIdle
  /\ LoadIdle

\* lines 876 to 886
Filter ==
  /\ ~df_filtered.called
  /\ df_filtered' = Called(ApplyFilters(df_processed, selected.areas,
                                        selected.prioridades, selected.procesos))
  /\ UNCHANGED <<df_processed, selected, pipeline_vars, encoding_vars, main_vars,
                 report_vars, load_vars>>

FilterNext == Filter

FilterSpec == FilterInit /\ [][FilterNext]_vars
--------------------------------------------------------------------------
(* Properties *)

\* clean_and_process_data has returned
Done == pc \in {"returned", "rendered"}

\* it returned a table
HasTable == Done /\ ~result.none

\* lines 270 to 322 have run to their end
Resolved == pc # "start" /\ exception.line # 270

\* lines 324 to 335 have run to their end
Checked == Resolved /\ pc # "resolved"

Labels(columns) == {columns[i] : i \in 1..Len(columns)}

\* the cell of row r of the returned table in the column labelled name
Out(r, name) == Cell(result.table, r, name)

OutRows == 1..Len(result.table.rows)

\* 20s + 20i + 15f + 15c + 10n + 10e + 10t
Hundredths(c) ==
  20 * c[1] + 20 * c[2] + 15 * c[3] + 15 * c[4] + 10 * c[5] + 10 * c[6] + 10 * c[7]

\* the float64 w is the real number h / 100
IsHundredths(w, h) ==
  /\ MagNorm(100 * w.m[1], 100 * w.m[2], 100 * w.m[3]) = <<0, 0, Abs(h) * 2^14>>
  /\ h # 0 => w.neg = (h < 0)

\* C1: for every row of the returned table Puntuacion_Ponderada is
\* (20s + 20i + 15f + 15c + 10n + 10e + 10t) / 100, required here only where
\* a float64 can hold that number (a multiple of 0.25); and the criteria
\* (5,5,4,4,3,3,2) give 4.0 and the tier Alta.
C1_WeightedIsExact ==
  HasTable =>
    \A r \in OutRows :
      LET c == Criteria(result.table, r)
          w == Out(r, <<"P","u","n","t","u","a","c","i","o","n","_","P","o","n","d","e","r","a","d","a">>).f
      IN /\ Hundredths(c) % 25 = 0 => IsHundredths(w, Hundredths(c))
         /\ c = ScenarioCriteria =>
              w = FOfInt(4) /\ Out(r, <<"P","r","i","o","r","i","d","a","d">>) = Str(<<"A","l","t","a">>)

\* the float64 w is at least k / 2, for k > 0
AtLeastHalves(w, k) == ~w.neg /\ w.m[3] >= k * 2^13

TierRank(p) ==
  CASE p = Str(<<"B","a","j","a">>) -> 1
    [] p = Str(<<"M","e","d","i","a">>) -> 2
    [] p = Str(<<"A","l","t","a">>) -> 3

\* C2: the tier of every row is Alta iff its weighted score is at least 3.5,
\* Media iff it is at least 2.5 and below 3.5, Baja iff it is below 2.5, and
\* of two rows the one with the greater score never has the lower tier.
C2_TierIsStepFunction ==
  HasTable =>
    /\ \A r \in OutRows :
         LET w == Out(r, <<"P","u","n","t","u","a","c","i","o","n","_","P","o","n","d","e","r","a","d","a">>).f
             p == Out(r, <<"P","r","i","o","r","i","d","a","d">>)
         IN /\ p = Str(<<"A","l","t","a">>) <=> AtLeastHalves(w, 7)
            /\ p = Str(<<"M","e","d","i","a">>) <=> AtLeastHalves(w, 5) /\ ~AtLeastHalves(w, 7)
            /\ p = Str(<<"B","a","j","a">>) <=> ~AtLeastHalves(w, 5)
    /\ \A r1, r2 \in OutRows :
         FGe(Out(r2, <<"P","u","n","t","u","a","c","i","o","n","_","P","o","n","d","e","r","a","d","a">>).f, Out(r1, <<"P","u","n","t","u","a","c","i","o","n","_","P","o","n","d","e","r","a","d","a">>).f)
           => TierRank(Out(r1, <<"P","r","i","o","r","i","d","a","d">>)) <= TierRank(Out(r2, <<"P","r","i","o","r","i","d","a","d">>))

\* a row whose score is the float64 3.5 itself, in the tier Alta
C2_Witness ==
  /\ HasTable
  /\ \E r \in OutRows :
       /\ Out(r, <<"P","u","n","t","u","a","c","i","o","n","_","P","o","n","d","e","r","a","d","a">>).f = F_3_5
       /\ Out(r, <<"P","r","i","o","r","i","d","a","d">>) = Str(<<"A","l","t","a">>)

\* C3: every criterion of every row of the returned table is a number
\* from 0 to 5.
C3_CriteriaInRange ==
  HasTable =>
    \A r \in OutRows : \A k \in 1..7 :
      LET v == Out(r, numeric_columns[k])
      IN v.t = "num" /\ 0 <= v.n /\ v.n <= 5

\* a cell that is present and has a character that is no blank
NonBlank(v) ==
  CASE v.t = "nan" -> FALSE
    [] v.t = "str" -> \E i \in 1..Len(v.s) : v.s[i] \notin Whitespace
    [] OTHER -> TRUE

\* the cell of input row r in the column that resolved to name
In(r, name) == df.rows[r][ColumnOf(result.table, name)]

\* C4: the rows of the returned table are the input rows, in order, whose
\* proposer name and initiative name are both present and not blank.
C4_RowsAreTheValidRows ==
  HasTable =>
    LET Valid(r) == /\ NonBlank(In(r, <<"N","o","m","b","r","e","_","C","o","l","a","b","o","r","a","d","o","r">>))
                    /\ NonBlank(In(r, <<"N","o","m","b","r","e","_","I","n","i","c","i","a","t","i","v","a">>))
    IN /\ result.table.index = SelectSeq(RangeIndex(Len(df.rows)), Valid)
       /\ Len(result.table.rows) = Len(result.table.index)

\* of two input rows the first, whose proposer name is empty, is dropped
\* and the second is kept
C4_Witness ==
  /\ HasTable
  /\ Len(df.rows) = 2
  /\ In(1, <<"N","o","m","b","r","e","_","C","o","l","a","b","o","r","a","d","o","r">>) = Str(<<>>)
  /\ result.table.index = <<2>>

\* column i of the input is the survey's header k, well spelled or
\* mojibake, with n blanks around it
IsSurveyHeader(i, k, n) ==
  \/ df.columns[i] = Str(Padded(SurveyHeaders[k], n))
  \/ df.columns[i] = Str(Padded(MojibakeHeaders[k], n))

\* C5: a column whose header is the survey's header of a required field,
\* well spelled or mojibake, with any blanks around it, takes that field's
\* canonical name; with the headers of the end-to-end scenario no required
\* field is reported missing and all seven criteria are columns.
C5_RequiredHeadersResolve ==
  /\ pc = "resolved" =>
       \A i \in 1..Len(df.columns) : \A k \in 2..Len(SurveyHeaders) :
         \A n \in 0..MaxPad :
           IsSurveyHeader(i, k, n) => df_clean.columns[i] = Str(CanonicalHeaders[k])
  /\ (df.columns = SurveyColumns /\ Checked) =>
       /\ st_error = <<>>
       /\ ~(Done /\ result.none)
       /\ \A k \in 1..7 : HasColumn(df_clean, numeric_columns[k])

\* the mojibake header of the strategic value, with blanks around it, has
\* become Valor_Estrategico
C5_Witness ==
  /\ pc = "resolved"
  /\ \E i \in 1..Len(df.columns) :
       /\ df.columns[i] = Str(Padded(MojibakeHeaders[5], 1))
       /\ df_clean.columns[i] = Str(<<"V","a","l","o","r","_","E","s","t","r","a","t","e","g","i","c","o">>)

\* C6 as stated: a header takes the canonical name of the first predicate
\* it matches, and a header that matches none is in the output the string
\* it was in the input.
C6_UnmatchedUnchanged ==
  pc = "resolved" =>
    \A i \in 1..Len(df.columns) :
      LET m == MatchingRules(df.columns[i].s) IN
      /\ m = {} => df_clean.columns[i] = df.columns[i]
      /\ m # {} => \E j \in m : /\ \A k \in m : j <= k
                                /\ df_clean.columns[i] = Str(column_rules[j].name)

\* C6 as amended: a header takes the canonical name of the first predicate
\* it matches, and a header that matches none is in the output the input
\* string without its leading and trailing whitespace.
C6_UnmatchedStripped ==
  pc = "resolved" =>
    \A i \in 1..Len(df.columns) :
      LET m == MatchingRules(df.columns[i].s) IN
      /\ m = {} => df_clean.columns[i] = Str(Strip(df.columns[i].s))
      /\ m # {} => \E j \in m : /\ \A k \in m : j <= k
                                /\ df_clean.columns[i] = Str(column_rules[j].name)

\* a header that matches no predicate and has blanks around it, beside a
\* header that matches two predicates
C6_Witness ==
  /\ pc = "resolved"
  /\ \E i \in 1..Len(df.columns) :
       /\ MatchingRules(df.columns[i].s) = {}
       /\ df_clean.columns[i] # df.columns[i]

\* C7: a table whose headers are canonical names already keeps every
\* header.
C7_CanonicalHeadersKept ==
  (pc = "resolved" /\ Labels(df.columns) \subseteq {Str(CanonicalNames[i]) : i \in 1..Len(CanonicalNames)})
    => SubSeq(df_clean.columns, 1, Len(df.columns)) = df.columns

\* the table of all twenty canonical names has been resolved
C7_Witness == pc = "resolved" /\ df = CanonicalTable

\* the criteria that are no column of the working copy
AbsentCriteria == {k \in 1..7 : ~HasColumn(df_clean, numeric_columns[k])}

\* C8 as stated: with a criterion column missing after resolution a scored
\* table is still returned, the missing criterion a column of zeros.
C8_ZeroColumnSubstituted ==
  (Done /\ \E k \in 1..7 : Str(numeric_columns[k]) \notin Labels(ResolvedColumns(df.columns))) =>
    /\ ~result.none
    /\ \A k \in 1..7 :
         /\ HasColumn(result.table, numeric_columns[k])
         /\ Str(numeric_columns[k]) \notin Labels(ResolvedColumns(df.columns)) =>
              \A r \in OutRows : Out(r, numeric_columns[k]) = Num(0)

\* C8 as amended: with a criterion column missing after resolution nothing
\* is substituted: the missing columns are reported, no table is returned
\* and main() shows the warning.
C8_MissingCriterionEndsTheLoad ==
  (Checked /\ AbsentCriteria # {}) =>
    /\ Done
    /\ result.none
    /\ \A k \in AbsentCriteria :
         /\ \E j \in 1..Len(st_error) : st_error[j] = numeric_columns[k]
         /\ ~HasColumn(df_clean, numeric_columns[k])
    /\ pc = "rendered" => page = "warning"

\* a run that ended in the warning with a criterion reported missing
C8_Witness ==
  /\ pc = "rendered"
  /\ page = "warning"
  /\ \E j \in 1..Len(st_error) : \E k \in 1..7 : st_error[j] = numeric_columns[k]

\* the required fields that are no column of the working copy
AbsentRequired ==
  {c \in Labels(required_columns) : Str(c) \notin Labels(df_clean.columns)}

\* C9: when a required field is absent after resolution the error lists
\* the absent required fields, each once, and no others, no table is
\* returned and none is shown; with none absent no error is reported.
C9_ErrorListsTheMissingFields ==
  Checked =>
    /\ Labels(st_error) = AbsentRequired
    /\ Len(st_error) = Cardinality(AbsentRequired)
    /\ AbsentRequired # {} =>
         /\ Done
         /\ result.none
         /\ pc = "rendered" => page = "warning"

\* two required fields are absent and both are listed
C9_Witness ==
  /\ pc = "rendered"
  /\ Len(st_error) = 2
  /\ page = "warning"

\* C10: column resolution, lines 269 to 335, raises no exception.
C10_ResolutionNeverThrows ==
  ~(pc = "raised" /\ exception.line >= 269 /\ exception.line <= 335)

--------------------------------------------------------------------------
(* Properties of the coercion, the sums and the row order *)

\* the input row that row r of the returned table was
Src(r) == result.table.index[r]

\* a cell that holds no number: nothing, or text without a digit
HoldsNoNumber(v) ==
  \/ IsNa(v)
  \/ v.t = "str" /\ \A j \in 1..Len(v.s) : ~IsDigit(v.s[j])

\* the input rows whose proposer and initiative are present and not blank
ValidInputRows ==
  {i \in 1..Len(df.rows) :
     /\ NonBlank(In(i, <<"N","o","m","b","r","e","_","C","o","l","a","b","o","r","a","d","o","r">>))
     /\ NonBlank(In(i, <<"N","o","m","b","r","e","_","I","n","i","c","i","a","t","i","v","a">>))}

\* C11: in a row with valid names a criterion cell that is missing or holds
\* no number comes out as 0; the row is in the returned table, and its
\* total is the sum of its other criteria.
C11_UnparseableBecomesZero ==
  HasTable =>
    /\ \A i \in ValidInputRows : \E r \in OutRows : Src(r) = i
    /\ \A r \in OutRows :
         LET bad == {k \in 1..7 : HoldsNoNumber(In(Src(r), numeric_columns[k]))}
             rest(k) == IF k \in bad THEN 0 ELSE Out(r, numeric_columns[k]).n
         IN /\ \A k \in bad : Out(r, numeric_columns[k]) = Num(0)
            /\ Out(r, <<"P","u","n","t","u","a","c","i","o","n","_","T","o","t","a","l">>) =
                 Num(rest(1) + rest(2) + rest(3) + rest(4) + rest(5) + rest(6) + rest(7))
            /\ Out(r, <<"P","r","i","o","r","i","d","a","d">>) \in {Str(<<"A","l","t","a">>), Str(<<"M","e","d","i","a">>), Str(<<"B","a","j","a">>)}

\* a returned row that had the text abc in one criterion and nothing in
\* another
C11_Witness ==
  /\ HasTable
  /\ \E r \in OutRows : \E k1, k2 \in 1..7 :
       /\ In(Src(r), numeric_columns[k1]) = Str(<<"a","b","c">>)
       /\ In(Src(r), numeric_columns[k2]) = NaN
       /\ Out(r, numeric_columns[k1]) = Num(0)
       /\ Out(r, numeric_columns[k2]) = Num(0)

\* the input rows that some row of the returned table was
KeptInputRows == {Src(r) : r \in OutRows}

\* a criterion cell of input row i is text that holds no number
HasUnparseable(i) ==
  \E k \in 1..7 :
    LET v == In(i, numeric_columns[k]) IN v.t = "str" /\ HoldsNoNumber(v)

\* the returned row r has its four scores
IsScored(r) ==
  /\ Out(r, <<"P","u","n","t","u","a","c","i","o","n","_","T","o","t","a","l">>).t = "num"
  /\ Out(r, <<"P","u","n","t","u","a","c","i","o","n","_","P","o","n","d","e","r","a","d","a">>).t = "flt"
  /\ Out(r, <<"P","r","i","o","r","i","d","a","d">>) \in {Str(<<"A","l","t","a">>), Str(<<"M","e","d","i","a">>), Str(<<"B","a","j","a">>)}
  /\ Out(r, <<"F","a","c","i","l","i","d","a","d","_","I","m","p","l","e","m","e","n","t","a","c","i","o","n">>).t = "flt"

\* C12 as stated: a row with an unparseable criterion cell, like a row with
\* empty identity fields, is absent from the scored table, and all other
\* rows are scored.
C12_UnparseableRowDropped ==
  HasTable =>
    /\ \A i \in 1..Len(df.rows) :
         i \in KeptInputRows <=> (i \in ValidInputRows /\ ~HasUnparseable(i))
    /\ \A r \in OutRows : IsScored(r)

\* C12 as amended: only a row with an empty identity field is absent from
\* the scored table; a row with an unparseable criterion cell is kept, and
\* every kept row is scored.
C12_OnlyIdentityDropsARow ==
  HasTable =>
    /\ KeptInputRows = ValidInputRows
    /\ \A r \in OutRows : IsScored(r)
    /\ \A i \in ValidInputRows : HasUnparseable(i) =>
         \E r \in OutRows : Src(r) = i /\ IsScored(r)

\* of two input rows the one without a proposer is dropped and the one
\* with an unparseable criterion is scored
C12_Witness ==
  /\ HasTable
  /\ Len(df.rows) = 2
  /\ \E i, j \in 1..2 :
       /\ i \notin ValidInputRows
       /\ j \in ValidInputRows /\ HasUnparseable(j)
       /\ KeptInputRows = {j}

\* C13: the total of every returned row is the sum of its seven criteria as
\* they are after coercion, the values the weighted score is computed from,
\* and lies between 0 and the 35 it is shown against.
C13_TotalIsSumWithin35 ==
  HasTable =>
    \A r \in OutRows :
      LET total == Out(r, <<"P","u","n","t","u","a","c","i","o","n","_","T","o","t","a","l">>) IN
      /\ total.t = "num"
      /\ total.n = Out(r, <<"V","a","l","o","r","_","E","s","t","r","a","t","e","g","i","c","o">>).n + Out(r, <<"N","i","v","e","l","_","I","m","p","a","c","t","o">>).n
                     + Out(r, <<"V","i","a","b","i","l","i","d","a","d","_","T","e","c","n","i","c","a">>).n + Out(r, <<"C","o","s","t","o","_","B","e","n","e","f","i","c","i","o">>).n
                     + Out(r, <<"I","n","n","o","v","a","c","i","o","n","_","D","i","s","r","u","p","c","i","o","n">>).n
                     + Out(r, <<"E","s","c","a","l","a","b","i","l","i","d","a","d","_","T","r","a","n","s","v","e","r","s","a","l","i","d","a","d">>).n
                     + Out(r, <<"T","i","e","m","p","o","_","I","m","p","l","e","m","e","n","t","a","c","i","o","n">>).n
      /\ 0 <= total.n /\ total.n <= 35

\* the orders the rows of a table of n rows can be in
RowOrders(n) ==
  {p \in [1..n -> 1..n] : \A i, j \in 1..n : p[i] = p[j] => i = j}

\* the table read with its rows in the order p
Permuted(t, p) ==
  Table(t.columns, [i \in 1..Len(t.rows) |-> t.rows[p[i]]], RangeIndex(Len(t.rows)))

\* C14: with the input rows in any other order every initiative has the
\* weighted score and the tier it has in this order, and two rows of one
\* table with the same criteria have the same score and tier.
C14_ScoreIgnoresRowOrder ==
  (pc = "returned" /\ ~result.none) =>
    /\ \A p \in RowOrders(Len(df.rows)) :
         LET other == clean_and_process_data(Permuted(df, p)) IN
         /\ other.kind = "table"
         /\ \A r \in OutRows :
              \E r2 \in 1..Len(other.table.rows) :
                /\ p[other.table.index[r2]] = Src(r)
                /\ Cell(other.table, r2, <<"P","u","n","t","u","a","c","i","o","n","_","P","o","n","d","e","r","a","d","a">>)
                     = Out(r, <<"P","u","n","t","u","a","c","i","o","n","_","P","o","n","d","e","r","a","d","a">>)
                /\ Cell(other.table, r2, <<"P","r","i","o","r","i","d","a","d">>) = Out(r, <<"P","r","i","o","r","i","d","a","d">>)
    /\ \A r1, r2 \in OutRows :
         Criteria(result.table, r1) = Criteria(result.table, r2) =>
           /\ Out(r1, <<"P","u","n","t","u","a","c","i","o","n","_","P","o","n","d","e","r","a","d","a">>) = Out(r2, <<"P","u","n","t","u","a","c","i","o","n","_","P","o","n","d","e","r","a","d","a">>)
           /\ Out(r1, <<"P","r","i","o","r","i","d","a","d">>) = Out(r2, <<"P","r","i","o","r","i","d","a","d">>)

\* two returned rows with different scores
C14_Witness ==
  /\ pc = "returned" /\ ~result.none
  /\ Len(result.table.rows) = 2
  /\ Out(1, <<"P","u","n","t","u","a","c","i","o","n","_","P","o","n","d","e","r","a","d","a">>) # Out(2, <<"P","u","n","t","u","a","c","i","o","n","_","P","o","n","d","e","r","a","d","a">>)
  /\ Out(1, <<"P","r","i","o","r","i","d","a","d">>) # Out(2, <<"P","r","i","o","r","i","d","a","d">>)

\* the quadrant of the effort-impact classification for an impact and an
\* ease
Quadrant(impact, ease) ==
  IF impact >= 4 /\ ease >= 4 THEN <<"Q","u","i","c","k"," ","W","i","n">>
  ELSE IF impact >= 4 THEN <<"S","t","r","a","t","e","g","i","c">>
  ELSE IF ease >= 4 THEN <<"F","i","l","l","e","r">>
  ELSE <<"L","o","w"," ","P","r","i","o","r","i","t","y">>

QuadrantNames ==
  {Str(<<"Q","u","i","c","k"," ","W","i","n">>), Str(<<"S","t","r","a","t","e","g","i","c">>), Str(<<"F","i","l","l","e","r">>), Str(<<"L","o","w"," ","P","r","i","o","r","i","t","y">>)}

\* C18 as stated: the returned table has a column that holds, for every
\* row, the quadrant of the row's impact and of the ease 6 - time.
C18_QuadrantAvailable ==
  HasTable =>
    \E c \in 1..Len(result.table.columns) :
      \A r \in OutRows :
        result.table.rows[r][c] =
          Str(Quadrant(Out(r, <<"N","i","v","e","l","_","I","m","p","a","c","t","o">>).n,
                       6 - Out(r, <<"T","i","e","m","p","o","_","I","m","p","l","e","m","e","n","t","a","c","i","o","n">>).n))

\* the float64 x is the quotient k / 3 rounded: the integer itself where 3
\* divides k, and strictly between the two nearest integers where not
IsThird(x, k) ==
  IF k % 3 = 0 THEN x = FOfInt(k \div 3)
  ELSE /\ FGe(x, FOfInt(k \div 3)) /\ x # FOfInt(k \div 3)
       /\ ~FGe(x, FOfInt((k \div 3) + 1))

ScoreColumns ==
  {Str(<<"P","u","n","t","u","a","c","i","o","n","_","T","o","t","a","l">>), Str(<<"P","u","n","t","u","a","c","i","o","n","_","P","o","n","d","e","r","a","d","a">>), Str(<<"P","r","i","o","r","i","d","a","d">>),
   Str(<<"F","a","c","i","l","i","d","a","d","_","I","m","p","l","e","m","e","n","t","a","c","i","o","n">>)}

\* C18 as amended: no quadrant is computed; the returned table has the
\* columns of the input and the four score columns only, no cell of a score
\* column is a quadrant name, and the ease of every row is the mean of its
\* technical feasibility, cost-benefit and time criteria.
C18_EaseIsMeanOfThree ==
  (pc = "returned" /\ ~result.none) =>
    /\ Labels(result.table.columns)
         \subseteq Labels(ResolvedColumns(df.columns)) \cup ScoreColumns
    /\ \A r \in OutRows :
         /\ \A c \in ScoreColumns : Out(r, c.s) \notin QuadrantNames
         /\ Out(r, <<"F","a","c","i","l","i","d","a","d","_","I","m","p","l","e","m","e","n","t","a","c","i","o","n">>).t = "flt"
         /\ IsThird(Out(r, <<"F","a","c","i","l","i","d","a","d","_","I","m","p","l","e","m","e","n","t","a","c","i","o","n">>).f,
                    Out(r, <<"V","i","a","b","i","l","i","d","a","d","_","T","e","c","n","i","c","a">>).n + Out(r, <<"C","o","s","t","o","_","B","e","n","e","f","i","c","i","o">>).n
                      + Out(r, <<"T","i","e","m","p","o","_","I","m","p","l","e","m","e","n","t","a","c","i","o","n">>).n)

\* a returned row with impact 5 and time 2, which the effort-impact variant
\* would call a Quick Win, has the ease 3.0, the mean of 4, 3 and 2
C18_Witness ==
  /\ pc = "returned" /\ ~result.none
  /\ \E r \in OutRows :
       /\ Out(r, <<"N","i","v","e","l","_","I","m","p","a","c","t","o">>) = Num(5)
       /\ Out(r, <<"T","i","e","m","p","o","_","I","m","p","l","e","m","e","n","t","a","c","i","o","n">>) = Num(2)
       /\ Out(r, <<"V","i","a","b","i","l","i","d","a","d","_","T","e","c","n","i","c","a">>) = Num(4)
       /\ Out(r, <<"C","o","s","t","o","_","B","e","n","e","f","i","c","i","o">>) = Num(3)
       /\ Out(r, <<"F","a","c","i","l","i","d","a","d","_","I","m","p","l","e","m","e","n","t","a","c","i","o","n">>) = Flt(FOfInt(3))
--------------------------------------------------------------------------
(* Properties of fix_encoding *)

\* the rules of the table that are for an accented letter
LetterRules == 1..12

\* the text holds the pattern of rule i of the table
HoldsPattern(s, i) == Contains(replacement_items[i][1], s)

\* the text with every mis-encoded accented letter replaced by its letter,
\* in one pass from left to right
RECURSIVE AccentsScanned(_)
AccentsScanned(s) ==
  IF Len(s) < 2 THEN s
  ELSE IF \E i \in LetterRules : replacement_items[i][1] = <<s[1], s[2]>>
       THEN LET i == CHOOSE i \in LetterRules : replacement_items[i][1] = <<s[1], s[2]>>
            IN replacement_items[i][2] \o AccentsScanned(SubSeq(s, 3, Len(s)))
       ELSE <<s[1]>> \o AccentsScanned(Tail(s))

\* C15: fix_encoding returns nothing and the empty text as they are; in a
\* text it replaces every occurrence of a mis-encoded accented letter by
\* the letter, as in the mis-encoded word of the scenario; and a text that
\* holds no pattern of the table is returned as it is.
C15_AccentsFixed ==
  returned.called =>
    /\ (IsNa(argument) \/ argument = Str(<<>>)) => returned.value = argument
    /\ argument = Str(<<"I","n","n","o","v","a","c","i","U+00C3","U+00B3","n">>) => returned.value = Str(<<"I","n","n","o","v","a","c","i","U+00F3","n">>)
    /\ argument.t = "str" =>
         /\ (\A i \in 1..Len(replacement_items) : ~HoldsPattern(argument.s, i))
              => returned.value = argument
         /\ (\A i \in 1..Len(replacement_items) :
               HoldsPattern(argument.s, i) => i \in LetterRules)
              => returned.value = Str(AccentsScanned(argument.s))

\* a text with two mis-encoded letters has come back with both replaced
C15_Witness ==
  /\ returned.called
  /\ argument = Str(<<"I","n","n","o","v","a","c","i","U+00C3","U+00B3","n"," ","/"," ","d","i","s","r","u","p","c","i","U+00C3","U+00B3","n">>)
  /\ returned.value = Str(<<"I","n","n","o","v","a","c","i","U+00F3","n"," ","/"," ","d","i","s","r","u","p","c","i","U+00F3","n">>)

\* C16: the patterns of the table are pairwise distinct, none is part of
\* another, and fix_encoding turns the pattern of every rule into the
\* target of that rule.
C16_EveryRuleFires ==
  returned.called =>
    \A i \in 1..Len(replacement_items) :
      argument = Str(replacement_items[i][1]) =>
        /\ returned.value = Str(replacement_items[i][2])
        /\ \A j \in 1..Len(replacement_items) :
             j # i => ~Contains(replacement_items[j][1], replacement_items[i][1])

--------------------------------------------------------------------------
(* C17: the numbers of the ranking *)

\* the weighted scores above the score of card i, among the cards listed
ScoresAbove(i) ==
  {run.ranking[j].score : j \in {k \in 1..Len(run.ranking) :
     /\ run.ranking[k].score # run.ranking[i].score
     /\ FGe(run.ranking[k].score, run.ranking[i].score)}}

\* C17 as stated: the numbers of the ranking are a dense rank, initiatives
\* with equal weighted scores have the same number and the next lower
\* score has the next number
C17_DenseRank ==
  run.displayed =>
    \A i \in 1..Len(run.ranking) :
      /\ run.ranking[i].number = 1 + Cardinality(ScoresAbove(i))
      /\ \A j \in 1..Len(run.ranking) :
           run.ranking[i].score = run.ranking[j].score
             => run.ranking[i].number = run.ranking[j].number

\* C17, amended: the ranking lists the filtered initiatives by weighted
\* score, descending, and numbers them by position: the card at position i
\* has the number i, every initiative has a number of its own, and the
\* scores do not increase along the list
C17_NumberedByPosition ==
  run.displayed =>
    /\ Len(run.ranking) <= RankingShown
    /\ Len(run.ranking) <= Len(run.filtered.rows)
    /\ Len(run.filtered.rows) <= RankingShown
         => Len(run.ranking) = Len(run.filtered.rows)
    /\ \A i \in 1..Len(run.ranking) :
         /\ run.ranking[i].number = i
         /\ run.ranking[i].row \in 1..Len(run.filtered.rows)
         /\ run.ranking[i].score
              = Cell(run.filtered, run.ranking[i].row, <<"P","u","n","t","u","a","c","i","o","n","_","P","o","n","d","e","r","a","d","a">>).f
         /\ \A j \in 1..Len(run.ranking) :
              /\ i # j => run.ranking[i].row # run.ranking[j].row
              /\ i < j => FGe(run.ranking[i].score, run.ranking[j].score)

\* C17: two initiatives with the same weighted score are listed as number
\* 1 and number 2, above an initiative with a lower score
C17_Witness ==
  /\ run.displayed
  /\ Len(run.ranking) = 3
  /\ run.ranking[1].score = run.ranking[2].score
  /\ run.ranking[1].number = 1
  /\ run.ranking[2].number = 2
  /\ run.ranking[3].score # run.ranking[2].score

--------------------------------------------------------------------------
(* C19: the session flag *)

\* C19: a run in a new session finds the flag false, and a run that finds
\* the flag false shows the login page only: it asks no URL, loads no
\* table, processes, filters, lists and exports nothing, and shows none of
\* the widgets of the data
C19_FlagGatesEverything ==
  run.ran =>
    /\ run.first => ~run.gate
    /\ ~run.gate =>
         /\ page = "login"
         /\ run.contacted = 0
         /\ ~run.loaded
         /\ ~run.processed
         /\ ~run.displayed
         /\ run.filtered = EmptyTable
         /\ run.ranking = <<>>
         /\ run.export = "none"
         /\ df = EmptyTable
         /\ result = NoResult
         /\ widgets = DefaultWidgets
         /\ run.messages \subseteq {"login_success", "login_error", "credentials_error"}
    /\ page \in {"logout", "dashboard", "warning", "info", "exception"} => run.gate

\* C19: after a logout the sheet's table is still in the cache, and a run
\* that refuses a login shows the login page
C19_Witness ==
  /\ run.ran
  /\ ~run.gate
  /\ ~run.first
  /\ cache.filled
  /\ ~cache.value.none
  /\ "login_error" \in run.messages
  /\ page = "login"

--------------------------------------------------------------------------
(* C20: how a run ends *)

\* C20 as stated: every run ends with a page or a message and never with
\* an unhandled exception; a table with no valid row ends in the warning,
\* a selection that leaves no row in the dashboard, and a PDF request on no
\* row in a message
C20_NoUnhandledException ==
  run.ran =>
    /\ page # "exception"
    /\ exception = NoException
    /\ page \in {"login", "logout", "dashboard", "warning", "info"}
    /\ (run.processed /\ ~result.none /\ Len(result.table.rows) = 0)
         => (page = "warning" /\ "no_valid_data" \in run.messages)
    /\ (run.displayed /\ Len(run.filtered.rows) = 0) => page = "dashboard"
    /\ (run.displayed /\ Len(run.filtered.rows) = 0 /\ run.event = "pdf")
         => ("pdf_error" \in run.messages /\ run.export = "none")

\* a PDF request on a selection that leaves no row ends in a message
C20_PdfOnNoRows ==
  /\ run.displayed
  /\ run.event = "pdf"
  /\ Len(run.filtered.rows) = 0
  /\ "pdf_error" \in run.messages

--------------------------------------------------------------------------
(* The executive report *)

\* the smaller of two numbers
Min(a, b) == IF a < b THEN a ELSE b

\* the scores x and y are the same float64
SameScore(x, y) == FGe(x, y) /\ FGe(y, x)

\* the top section lists min(5, n) different rows of the reported table,
\* numbered from 1, with scores that never increase, and no row left out
\* has a strictly higher score than a listed one
TopIsLargest(t, top) ==
  /\ Len(top) = Min(TopShown, Len(t.rows))
  /\ \A i \in 1..Len(top) :
       /\ top[i].number = i
       /\ top[i].row \in 1..Len(t.rows)
       /\ top[i].score = ScoreOf(t, top[i].row)
  /\ \A i, j \in 1..Len(top) : i < j =>
       /\ top[i].row # top[j].row
       /\ FGe(top[i].score, top[j].score)
  /\ \A r \in 1..Len(t.rows) :
       (\A i \in 1..Len(top) : top[i].row # r) =>
         \A i \in 1..Len(top) : FGe(top[i].score, ScoreOf(t, r))

\* of two listed rows with equal scores the earlier input row comes first,
\* and a row left out with the score of a listed one comes after it
EarlierFirst(t, top) ==
  /\ \A i, j \in 1..Len(top) :
       i < j /\ SameScore(top[i].score, top[j].score) => top[i].row < top[j].row
  /\ \A r \in 1..Len(t.rows) :
       (\A i \in 1..Len(top) : top[i].row # r) =>
         \A i \in 1..Len(top) :
           SameScore(top[i].score, ScoreOf(t, r)) => top[i].row < r

\* C21, as stated: the top section of the PDF report lists exactly
\* min(5, n) of the n initiatives, in non-increasing order of weighted
\* score, none left out scores strictly higher than a listed one, and
\* among equal scores the earlier input row comes first
C21_EarlierRowFirst ==
  pdf.called /\ pdf.value.built =>
    /\ TopIsLargest(df_reported, pdf.value.top)
    /\ EarlierFirst(df_reported, pdf.value.top)

\* C21, amended: a report that is built lists exactly min(5, n) of the n
\* initiatives in non-increasing order of weighted score and leaves out
\* none that scores strictly higher than a listed one; the earlier input
\* row comes first among equal scores when more than five initiatives are
\* passed, and with five or fewer the order among equal scores is whatever
\* the sort gives
C21_TopFiveByScore ==
  pdf.called /\ pdf.value.built =>
    /\ TopIsLargest(df_reported, pdf.value.top)
    /\ Len(df_reported.rows) > TopShown =>
         EarlierFirst(df_reported, pdf.value.top)

\* C21: a report of more than five initiatives in which two listed rows
\* have equal scores and a row left out has the score of the last listed
C21_Witness ==
  /\ pdf.called /\ pdf.value.built
  /\ Len(df_reported.rows) > TopShown
  /\ Len(pdf.value.top) = TopShown
  /\ \E i, j \in 1..TopShown :
       i < j /\ SameScore(pdf.value.top[i].score, pdf.value.top[j].score)
  /\ \E r \in 1..Len(df_reported.rows) :
       /\ \A i \in 1..TopShown : pdf.value.top[i].row # r
       /\ SameScore(pdf.value.top[TopShown].score, ScoreOf(df_reported, r))

\* how many rows of t have a weighted score in the band of the tier p,
\* lines 377 to 383
InBand(t, p) ==
  Cardinality({r \in 1..Len(t.rows) :
    CASE p = "Alta" -> FGe(ScoreOf(t, r), F_3_5)
      [] p = "Media" -> ~FGe(ScoreOf(t, r), F_3_5) /\ FGe(ScoreOf(t, r), F_2_5)
      [] p = "Baja" -> ~FGe(ScoreOf(t, r), F_2_5)})

\* the tenths of a percent p are count/total*100 rounded to one decimal
IsPercentage(p, count, total) ==
  /\ 2 * (p * total - count * 1000) <= total
  /\ 2 * (count * 1000 - p * total) <= total

\* the three counts are those of the tiers of t and sum to its rows
CountsOfTiers(t, shown) ==
  /\ shown.total_initiatives = Len(t.rows)
  /\ shown.high_priority = InBand(t, "Alta")
  /\ shown.medium_priority = InBand(t, "Media")
  /\ shown.low_priority = InBand(t, "Baja")
  /\ shown.high_priority + shown.medium_priority + shown.low_priority
       = shown.total_initiatives

\* the three percentages are those of the three counts
PercentagesOfCounts(shown) ==
  /\ Len(shown.percentages) = 3
  /\ IsPercentage(shown.percentages[1], shown.high_priority, shown.total_initiatives)
  /\ IsPercentage(shown.percentages[2], shown.medium_priority, shown.total_initiatives)
  /\ IsPercentage(shown.percentages[3], shown.low_priority, shown.total_initiatives)

--------------------------------------------------------------------------
(* The loaders and the cache *)

\* URL i of the sheet answers successfully with at least one row
Answers(i) == sheet[i].ok /\ Len(sheet[i].table.rows) > 0

\* C22: load_data_from_url tries the three URLs in their order and returns
\* the table of the first that answers successfully with at least one row,
\* without contacting any later URL; a URL that errors or has no rows is
\* skipped, and only when all three are skipped is no table returned,
\* together with the remediation message
C22_FirstUrlWithRows ==
  fetched.called =>
    /\ \A i \in 1..3 :
         Answers(i) /\ (\A j \in 1..(i - 1) : ~Answers(j)) =>
           /\ fetched.value.value = Returned(sheet[i].table)
           /\ fetched.value.contacted = i
           /\ "remediation" \notin fetched.value.messages
    /\ (\A i \in 1..3 : ~Answers(i)) <=>
         /\ fetched.value.value = NoResult
         /\ "remediation" \in fetched.value.messages
    /\ (\A i \in 1..3 : ~Answers(i)) => fetched.value.contacted = 3

\* C22: the first URL errors, the second answers without rows and the
\* third has a table, which is returned after three URLs were contacted
C22_Witness ==
  /\ fetched.called
  /\ ~sheet[1].ok
  /\ sheet[2].ok /\ Len(sheet[2].table.rows) = 0
  /\ Answers(3)
  /\ fetched.value.value = Returned(sheet[3].table)
  /\ fetched.value.contacted = 3

\* the run that ends in the next state loaded from the sheet: the flag was
\* set, the logout button was not pressed and the radio is on the sheet
SheetRun ==
  /\ run'.ran /\ run'.gate /\ run'.event # "logout"
  /\ widgets'.data_source = "Google Sheets"

\* what a run does with the cache of load_data_from_url
CacheDiscipline ==
  /\ run'.contacted > 0 =>
       SheetRun /\ (~cache.filled \/ run'.event = "refresh")
  /\ SheetRun /\ cache.filled /\ run'.event # "refresh" =>
       /\ run'.contacted = 0
       /\ cache' = cache
       /\ run'.loaded = ~cache.value.none
       /\ run'.loaded => df' = cache.value.table
  /\ SheetRun /\ (~cache.filled \/ run'.event = "refresh") =>
       /\ run'.contacted >= 1
       /\ cache'.filled
       /\ run'.loaded = ~cache'.value.none
       /\ run'.loaded => df' = cache'.value.table
  /\ ~SheetRun => cache' = cache

\* C23: with the sheet as the source the table is fetched over the network
\* only when no cached result exists: every run between two presses of the
\* refresh button uses the same cached result, and pressing the button
\* clears the cache so that the same run fetches again
C23_FetchOnlyWithoutCache == [][CacheDiscipline]_vars

\* C23: the refresh button was pressed and the run it started
\* fetched again, the second URL answered and its table is now cached
C23_Witness ==
  /\ run.event = "refresh"
  /\ run.contacted = 2
  /\ run.loaded
  /\ cache = Cached(Returned(df))

--------------------------------------------------------------------------
(* The filters *)

\* the characters a and b are the same letter, whatever the case
SameLetter(a, b) ==
  \/ a = b
  \/ \E k \in 1..Len(UpperLetters) :
       {a, b} = {UpperLetters[k], LowerLetters[k]}

\* the text s contains the text sub, whatever the case of the letters
ContainsWhateverCase(sub, s) ==
  \E i \in 0..(Len(s) - Len(sub)) :
    \A j \in 1..Len(sub) : SameLetter(s[i + j], sub[j])

\* row r of t passes the three filters: an empty selection asks nothing,
\* and neither does the selection of processes of a table without the
\* column
Passes(t, r, s) ==
  /\ s.areas # {} => Cell(t, r, <<"A","r","e","a">>) \in s.areas
  /\ s.prioridades # {} => Cell(t, r, <<"P","r","i","o","r","i","d","a","d">>) \in s.prioridades
  /\ (s.procesos # {} /\ HasColumn(t, <<"P","r","o","c","e","s","o","_","R","e","l","a","c","i","o","n","a","d","o">>)) =>
       \E proc \in s.procesos :
         ContainsWhateverCase(proc, ToStr(Cell(t, r, <<"P","r","o","c","e","s","o","_","R","e","l","a","c","i","o","n","a","d","o">>)))

\* where the row labelled label is in t
PositionOf(t, label) == CHOOSE r \in 1..Len(t.index) : t.index[r] = label

\* C25: the filtered table is a subsequence of the processed table, same
\* rows, same values, same order, made of the rows whose Area is among the
\* selected areas, whose Prioridad is among the selected priorities and
\* whose related-process text contains, whatever the case, a selected
\* process; a multiselect left empty asks nothing
C25_FilteredIsTheSelection ==
  df_filtered.called =>
    LET t == df_processed
        f == df_filtered.value
    IN /\ f.columns = t.columns
       /\ Len(f.rows) = Len(f.index)
       /\ \A i \in 1..Len(f.rows) :
            /\ \E r \in 1..Len(t.rows) : t.index[r] = f.index[i]
            /\ f.rows[i] = t.rows[PositionOf(t, f.index[i])]
            /\ Passes(t, PositionOf(t, f.index[i]), selected)
       /\ \A i, j \in 1..Len(f.rows) :
            i < j => PositionOf(t, f.index[i]) < PositionOf(t, f.index[j])
       /\ \A r \in 1..Len(t.rows) :
            Passes(t, r, selected) => \E i \in 1..Len(f.rows) : f.index[i] = t.index[r]

\* C25: no area and no priority is selected, the process selected is
\* "Compras", and the table left has the row that says "compras" and not
\* the row that says "Ventas,"
C25_Witness ==
  /\ df_filtered.called
  /\ selected.areas = {} /\ selected.prioridades = {}
  /\ selected.procesos = {<<"C","o","m","p","r","a","s">>}
  /\ Len(df_processed.rows) = 4
  /\ Len(df_filtered.value.rows) = 2
  /\ \E i \in 1..2 :
       Cell(df_filtered.value, i, <<"P","r","o","c","e","s","o","_","R","e","l","a","c","i","o","n","a","d","o">>) = Str(<<"c","o","m","p","r","a","s">>)

\* C26, as stated: with every filter at its default the filtered table is
\* the processed table, an initiative with a missing area or a missing
\* related process included
C26_DefaultsHideNothing ==
  (df_filtered.called /\ selected = DefaultSelection(df_processed)) =>
    df_filtered.value = df_processed

\* C26: the defaults hide an initiative that names no area
C26_MissingAreaHidden ==
  /\ df_filtered.called /\ selected = DefaultSelection(df_processed)
  /\ \E r \in 1..Len(df_processed.rows) :
       /\ Cell(df_processed, r, <<"A","r","e","a">>) = NaN
       /\ \A i \in 1..Len(df_filtered.value.rows) :
            df_filtered.value.index[i] # df_processed.index[r]

\* C26: the defaults hide an initiative that names no related process
C26_MissingProcessHidden ==
  /\ df_filtered.called /\ selected = DefaultSelection(df_processed)
  /\ HasColumn(df_processed, <<"P","r","o","c","e","s","o","_","R","e","l","a","c","i","o","n","a","d","o">>)
  /\ \E r \in 1..Len(df_processed.rows) :
       /\ Cell(df_processed, r, <<"P","r","o","c","e","s","o","_","R","e","l","a","c","i","o","n","a","d","o">>) = NaN
       /\ Cell(df_processed, r, <<"A","r","e","a">>) # NaN
       /\ \A i \in 1..Len(df_filtered.value.rows) :
            df_filtered.value.index[i] # df_processed.index[r]

--------------------------------------------------------------------------
(* Login and logout *)

\* the flag of the session s is set
Flag(s) == "authenticated" \in DOMAIN s /\ s["authenticated"] = TRUE

\* the store holds an entry with the username whose hash verifies the
\* password
Verifies(store, username, password) ==
  /\ store.present
  /\ \E i \in 1..Len(store.users) :
       /\ store.users[i].username = username
       /\ bcrypt_checkpw(password, store.users[i].password)

\* what a run does with the flag
LoginDiscipline ==
  LET submitted == run'.ran /\ run'.event = "login"
      success == "login_success" \in run'.messages
  IN /\ (~Flag(session_state) /\ Flag(session_state')) => submitted /\ success
     /\ submitted =>
          /\ success => Verifies(secrets, run'.form.username, run'.form.password)
          /\ ~Verifies(secrets, run'.form.username, run'.form.password) =>
               /\ ~Flag(session_state')
               /\ "login_error" \in run'.messages
               /\ "username" \notin DOMAIN session_state'
          /\ ~secrets.present => "credentials_error" \in run'.messages
          /\ success =>
               /\ Flag(session_state')
               /\ session_state'["username"] = run'.form.username

\* C27: the flag becomes true only in a run where check_credentials
\* returned true for the submitted form, which it does only if the store
\* holds an entry with that username whose hash verifies the password; an
\* unknown username, a wrong password or an error while reading the store
\* leave the session unauthenticated, and on success the username of the
\* session is the submitted one
C27_OnlyVerifiedLoginSetsFlag == [][LoginDiscipline]_vars

\* C27: luis has logged in with his password
C27_Witness ==
  /\ run.event = "login"
  /\ run.form = [username |-> "luis", password |-> "clave-luis"]
  /\ "login_success" \in run.messages
  /\ Flag(session_state)
  /\ session_state["username"] = "luis"

\* C27: ana was refused with the password of luis, and eva, whom the store
\* does not know, with any
C27_Refused ==
  /\ run.event = "login"
  /\ secrets.present
  /\ run.form.username \in {"eva", "ana"} /\ run.form.password = "clave-luis"
  /\ "login_error" \in run.messages
  /\ ~Flag(session_state)

\* what the logout does, and what runs do while the flag is not set
LogoutDiscipline ==
  /\ (run'.ran /\ run'.event = "logout") =>
       /\ Flag(session_state)
       /\ "authenticated" \in DOMAIN session_state'
       /\ session_state'["authenticated"] = FALSE
       /\ DOMAIN session_state' \cap {"username", "session_time", "remember_session"} = {}
       /\ page' = "logout"
       /\ run'.messages = {"logout_success"}
       /\ run'.rerun
       /\ run'.contacted = 0 /\ ~run'.loaded /\ ~run'.processed /\ ~run'.displayed
       /\ run'.export = "none"
       /\ widgets' = widgets /\ cache' = cache
  /\ ~Flag(session_state) =>
       /\ page' = "login"
       /\ run'.contacted = 0 /\ ~run'.loaded /\ ~run'.processed /\ ~run'.displayed
       /\ run'.export = "none"
       /\ Flag(session_state') =>
            run'.event = "login" /\ "login_success" \in run'.messages

\* C28: the logout button sets the flag to false and removes username,
\* session_time and remember_session, nothing after it is rendered in that
\* run, and from then on every run shows only the login page until a login
\* succeeds
C28_LogoutEndsTheSession == [][LogoutDiscipline]_vars

\* C28: the run that st.rerun() started after a logout shows the login
\* page, with the table of the sheet still in the cache
C28_Witness ==
  /\ run.ran /\ run.event = "rerun" /\ ~run.first
  /\ page = "login"
  /\ ~Flag(session_state)
  /\ "username" \notin DOMAIN session_state
  /\ cache.filled

\* C28: the logout button was pressed
C28_LoggedOut ==
  /\ run.ran /\ run.event = "logout"
  /\ page = "logout"
  /\ DOMAIN session_state = {"authenticated"}

--------------------------------------------------------------------------
(* Resolution works on a copy *)

\* the columns lines 357 to 391 assign
derived_columns == <<
  <<"P","u","n","t","u","a","c","i","o","n","_","T","o","t","a","l">>, <<"P","u","n","t","u","a","c","i","o","n","_","P","o","n","d","e","r","a","d","a">>, <<"P","r","i","o","r","i","d","a","d">>,
  <<"F","a","c","i","l","i","d","a","d","_","I","m","p","l","e","m","e","n","t","a","c","i","o","n">> >>

\* column i of the input matches no rule of the resolver and its name is
\* not that of a text column or of a criterion
Untouched(i) ==
  /\ MatchingRules(Strip(df.columns[i].s)) = {}
  /\ \A k \in 1..Len(text_columns) : Strip(df.columns[i].s) # text_columns[k]
  /\ \A k \in 1..Len(numeric_columns) : Strip(df.columns[i].s) # numeric_columns[k]

\* column i of the returned table has, in every row, the cell the input
\* has in that row and column
KeepsItsValues(i) ==
  /\ i <= Len(result.table.columns)
  /\ \A r \in OutRows :
       /\ result.table.index[r] \in 1..Len(df.rows)
       /\ result.table.rows[r][i] = df.rows[result.table.index[r]][i]

\* the rows of the returned table are input rows in their input order
KeepsTheOrder ==
  \A r, q \in OutRows : r < q => result.table.index[r] < result.table.index[q]

\* C29, as stated: clean_and_process_data leaves the table it was given
\* unmodified, every column that matches no rule and is not a text or
\* criterion column keeps its values for the surviving rows, and the
\* surviving rows keep their input order
C29_OtherColumnsKept ==
  /\ [](HasTable =>
          /\ KeepsTheOrder
          /\ \A i \in 1..Len(df.columns) : Untouched(i) => KeepsItsValues(i))
  /\ [][df' = df]_vars

\* C29, amended: the same for every column that matches no rule and is
\* named neither like a text column or a criterion nor like one of the four
\* columns the scoring assigns
C29_OtherColumnsKeptUnlessDerived ==
  /\ [](HasTable =>
          /\ KeepsTheOrder
          /\ \A i \in 1..Len(df.columns) :
               (Untouched(i) /\ \A k \in 1..Len(derived_columns) :
                                  Strip(df.columns[i].s) # derived_columns[k])
                 => /\ KeepsItsValues(i)
                    /\ result.table.columns[i] = Str(Strip(df.columns[i].s)))
  /\ [][df' = df]_vars

\* C29: the table with the comments was processed: its second row was
\* dropped, and the comments of the other two are in the result
C29_Witness ==
  /\ HasTable
  /\ df = CommentedTable
  /\ result.table.index = <<1, 3>>
  /\ result.table.columns[Len(df.columns)] = Str(<<"C","o","m","e","n","t","a","r","i","o">>)
  /\ result.table.rows[1][Len(df.columns)] = Str(<<"o","k">>)
  /\ result.table.rows[2][Len(df.columns)] = NaN

\* C29: the column "Prioridad" of the input holds the tiers of the scoring
C29_PrioridadOverwritten ==
  /\ HasTable
  /\ \E i \in 1..Len(df.columns) :
       /\ df.columns[i] = Str(<<"P","r","i","o","r","i","d","a","d">>)
       /\ df.rows[1][i] = Str(<<"U","r","g","e","n","t","e">>)
       /\ result.table.index[1] = 1
       /\ result.table.rows[1][i] = Str(<<"A","l","t","a">>)

\* C30, as stated: after resolution the column names of the cleaned table
\* are pairwise distinct, no two raw headers having been mapped to the same
\* canonical name or become equal by trimming, so that each criterion
\* denotes exactly one column when it is coerced and scored
C30_ResolvedNamesDistinct ==
  pc = "resolved" =>
    /\ \A i, j \in 1..Len(df_clean.columns) :
         i # j => df_clean.columns[i] # df_clean.columns[j]
    /\ \A k \in 1..7 : Cardinality(ColumnsNamed(df_clean, numeric_columns[k])) <= 1

\* C30: two headers of the input, "Nivel de impacto" and the same with a
\* blank before it, are both the column Nivel_Impacto of the working copy,
\* and the run ends with the TypeError of line 355
C30_TwoColumnsOneCriterion ==
  /\ Cardinality(ColumnsNamed(df_clean, <<"N","i","v","e","l","_","I","m","p","a","c","t","o">>)) = 2
  /\ \E i, j \in 1..Len(df.columns) :
       /\ i # j
       /\ df.columns[i] = Str(<<"N","i","v","e","l"," ","d","e"," ","i","m","p","a","c","t","o">>)
       /\ df.columns[j] = Str(<<" ","N","i","v","e","l"," ","d","e"," ","i","m","p","a","c","t","o">>)
  /\ exception = Exception("TypeError", 355)
====
